---- MODULE Spec2Model ----
(***************************************************************************)
(* A model of the protobuf-objc code generator (src/compiler) and of the   *)
(* Objective-C code it emits.                                              *)
(*                                                                         *)
(* The module holds several specifications over one set of variables; each *)
(* specification drives one part of the generator and leaves the variables *)
(* of the other parts at their idle value:                                 *)
(*                                                                         *)
(*   SpecEmit   the message orchestrator's emission passes                 *)
(*              (objc_message.cc, GenerateMessage...Source)                *)
(*   SpecReq    the required-field analysis HasRequiredFields              *)
(*              (objc_message.cc, lines 111-171), run statement by         *)
(*              statement over a declared type graph                       *)
(*   SpecBuilder the generated message and builder classes at run time:    *)
(*              setters, merges, decoding, build and buildPartial          *)
(*              (objc_message.cc, lines 763-1086, and the field            *)
(*              generators)                                                *)
(*   SpecEnum   decoding and re-encoding of messages with an enum field    *)
(*              (objc_enum_field.cc, lines 162-170 and 349-395)            *)
(*   SpecPacked a class with one repeated scalar or enum field, packed or  *)
(*              not: serializedSize, writeToCodedOutputStream and the      *)
(*              decoding of the bytes written (part_001, lines 682-785;    *)
(*              objc_enum_field.cc, lines 349-431)                         *)
(*   SpecDecode the decode loop on streams with unknown and end-group tags *)
(*              (objc_message.cc, lines 873-912)                           *)
(*   SpecMerge  mergeFrom: of one instance into a builder, field by field  *)
(*              (objc_message.cc, lines 841-865, and the field generators) *)
(*   SpecGenerate ObjectiveCGenerator::Generate: the options of a request  *)
(*              and the artifacts opened (main.cc, lines 70-144)           *)
(*   SpecRec    the builder's members on two message types that refer to   *)
(*              each other (objc_message.cc, lines 122-171 and 983-1060)   *)
(*   SpecPartial partiallyMergeFrom:fieldIDs: of an instance into a builder*)
(*              (objc_message.cc, lines 926-981)                           *)
(*   SpecSub    decoding of a repeated message field, one sub-builder per  *)
(*              occurrence (objc_message_field.cc, lines 368-436)          *)
(*   SpecEqual  isEqual: and hash of the generated classes                 *)
(*              (objc_message.cc, lines 612-703, and the field generators) *)
(*   SpecObject SpecPacked for a repeated string or bytes field            *)
(*              (part_001, lines 682-785)                                  *)
(***************************************************************************)
EXTENDS Integers, Sequences, FiniteSets, TLC

VARIABLES
    desc_fields,    \* descriptor_->field(i): field numbers in declaration order
    desc_ranges,    \* descriptor_->extension_range(i), in declaration order
    gen_pc,         \* "declare" while the schema is read, "done" after generation
    emitted         \* the blocks each emission pass printed, in print order

emitVars == <<desc_fields, desc_ranges, gen_pc, emitted>>

VARIABLES
    schema,         \* the message types: extension ranges and fields of each
    req_pc,         \* "schema" while types are declared, then "idle" / "running"
    req_start,      \* the type the running top-level HasRequiredFields was called on
    req_stack,      \* the C++ call stack of HasRequiredFields(type, already_seen)
    already_seen,   \* hash_set<const Descriptor *> already_seen
    req_ret,        \* the value a call has just returned to its caller
    req_result,     \* what the last top-level call returned
    req_prev,       \* the first top-level call that returned: its type and result,
                    \* and whether another type was analysed after it
    req_inserts,    \* per type, how often this run inserted it into already_seen
    req_past,       \* calls of this run that got past the already_seen check
    req_hits,       \* calls of this run that the already_seen check answered
    req_steps       \* statements this run has executed

reqVars == <<schema, req_pc, req_start, req_stack, already_seen, req_ret,
             req_result, req_prev, req_inserts, req_past, req_hits, req_steps>>

VARIABLES
    heap,           \* the message instances allocated so far ([[X alloc] init])
    builder_type,   \* the class of the builder in use, "none" before the first
    builder_result, \* the builder's builder_result: a heap index, 0 for nil
    handed,         \* the instances build / buildPartial have returned
    last_op,        \* the last builder call and what it returned
    parsing,        \* inside mergeFromCodedInputStream
    input,          \* PBCodedInputStream: the fields not read yet
    unknownFields,  \* the PBUnknownFieldSet_Builder local to the decode loop
    wire_in,        \* the whole stream the last decode was given
    output          \* PBCodedOutputStream: the fields written

rtVars == <<heap, builder_type, builder_result, handed, last_op,
            parsing, input, unknownFields, wire_in, output>>

VARIABLES
    pk_field,       \* the repeated field the class was generated for
    pk_list,        \* the built instance's list: self.$list_name$
    nameMemoizedSerializedSize, \* int32_t $name$MemoizedSerializedSize
    memoizedSerializedSize,     \* the message's memoizedSerializedSize
    pk_op,          \* the last call on the instance and what it returned
    pk_out,         \* PBCodedOutputStream: what the last write wrote
    pk_bytes,       \* PBCodedInputStream: the buffer being decoded
    pk_pos,         \* PBCodedInputStream: the bytes read so far
    currentLimit,   \* PBCodedInputStream: currentLimit
    pk_dec,         \* the list of the builder the buffer is decoded into
    pk_pc           \* where the decode loop is

pkVars == <<pk_field, pk_list, nameMemoizedSerializedSize,
            memoizedSerializedSize, pk_op, pk_out, pk_bytes, pk_pos,
            currentLimit, pk_dec, pk_pc>>

VARIABLES
    options,        \* vector<pair<string, string>> options, as parsed
    shouldDivideHeaders, \* getenv("PROTOC_GEN_OBJC_DIVIDE_HEADERS") != 0
    opt_i,          \* the index i of the loop over the options
    output_list_file,    \* string output_list_file
    error,          \* *error
    opened,         \* the artifacts opened through output_directory, in order
    returned,       \* what Generate returned: "none" while it runs
    main_pc         \* where Generate is

genVars == <<options, shouldDivideHeaders, opt_i, output_list_file, error,
             opened, returned, main_pc>>

VARIABLES
    eq_op,          \* the last isEqual: call: self, other and the answer
    hash_ret,       \* what hash returned for each instance, -1 before the call
    isEqualToArray_nil  \* the runtime's answer of [emptyArray isEqualToArray:nil]

eqVars == <<eq_op, hash_ret, isEqualToArray_nil>>

auxVars == <<pkVars, genVars, eqVars>>

vars == <<emitVars, reqVars, rtVars, auxVars>>

----------------------------------------------------------------------------
(* Bounds of the schema universe.                                          *)

MaxNum == 5         \* field numbers and range starts are drawn from 1..MaxNum
MaxFields == 3      \* fields declared in one message
MaxRanges == 2      \* extension ranges declared in one message
MaxSchemaItems == 3 \* fields and extension ranges declared in one type graph

----------------------------------------------------------------------------
(* Sequence helpers.                                                       *)

Range(s) == {s[i] : i \in DOMAIN s}

RECURSIVE SeqSum(_)
SeqSum(s) == IF s = <<>> THEN 0 ELSE Head(s) + SeqSum(Tail(s))

----------------------------------------------------------------------------
(* objc_message.cc: the orderings and the sorted copies                    *)

\* struct FieldOrderingByNumber: a->number() < b->number()
FieldOrderingByNumber(a, b) == a < b

\* struct ExtensionRangeOrdering: a->start < b->start
ExtensionRangeOrdering(a, b) == a.start < b.start

\* std::sort of a field array under FieldOrderingByNumber (insertion of each
\* element before the first element it is ordered before).
RECURSIVE InsertField(_, _)
InsertField(x, s) ==
    IF s = <<>> THEN <<x>>
    ELSE IF FieldOrderingByNumber(x, Head(s)) THEN <<x>> \o s
    ELSE <<Head(s)>> \o InsertField(x, Tail(s))

RECURSIVE SortFieldsArray(_)
SortFieldsArray(s) ==
    IF s = <<>> THEN <<>> ELSE InsertField(Head(s), SortFieldsArray(Tail(s)))

\* A sort that was forgotten: the array is returned in declaration order.
SortFieldsByNumber_Unsorted(fs) == fs

\* SortFieldsByNumber(descriptor): copy field(0..n-1), then sort by number.
SortFieldsByNumber(fs) == SortFieldsArray(fs)

RECURSIVE InsertRange(_, _)
InsertRange(x, s) ==
    IF s = <<>> THEN <<x>>
    ELSE IF ExtensionRangeOrdering(x, Head(s)) THEN <<x>> \o s
    ELSE <<Head(s)>> \o InsertRange(x, Tail(s))

RECURSIVE SortRangesArray(_)
SortRangesArray(s) ==
    IF s = <<>> THEN <<>> ELSE InsertRange(Head(s), SortRangesArray(Tail(s)))

\* sorted_extensions: push_back every extension_range(i), then sort by start.
SortedExtensions(rs) == SortRangesArray(rs)

----------------------------------------------------------------------------
(* The blocks an emission pass prints.                                     *)

\* the fragment of one field (field_generators_.get(field).Generate...)
FieldBlock(n) == [kind |-> "field", key |-> n, end |-> n]
\* the fragment of one extension range (from:$from$ to:$to$)
RangeBlock(r) == [kind |-> "range", key |-> r.start, end |-> r.end]
\* "size_ += [self extensionsSerializedSize];": all extensions at once
ExtensionsBlock == [kind |-> "extensions", key |-> 0, end |-> 0]

\* nothing printed yet
NoEmission == [serialize |-> <<>>, size |-> <<>>, description |-> <<>>,
               isEqual |-> <<>>, hash |-> <<>>]

\* writeToCodedOutputStream: the merge loop of lines 519-530
RECURSIVE SerializeLoop(_, _, _, _)
SerializeLoop(sf, se, i, j) ==
    IF ~(i < Len(sf) \/ j < Len(se)) THEN <<>>
    ELSE IF i = Len(sf) THEN <<RangeBlock(se[j + 1])>> \o SerializeLoop(sf, se, i, j + 1)
    ELSE IF j = Len(se) THEN <<FieldBlock(sf[i + 1])>> \o SerializeLoop(sf, se, i + 1, j)
    ELSE IF sf[i + 1] < se[j + 1].start
         THEN <<FieldBlock(sf[i + 1])>> \o SerializeLoop(sf, se, i + 1, j)
    ELSE <<RangeBlock(se[j + 1])>> \o SerializeLoop(sf, se, i, j + 1)

GenerateSerialize(fs, rs) ==
    SerializeLoop(SortFieldsByNumber(fs), SortedExtensions(rs), 0, 0)

\* serializedSize: every sorted field (lines 552-554), then one block for all
\* the extensions when the message has extension ranges (lines 556-559)
GenerateSerializedSize(fs, rs) ==
    LET sf == SortFieldsByNumber(fs)
    IN  [i \in 1..Len(sf) |-> FieldBlock(sf[i])]
        \o (IF Len(rs) > 0 THEN <<ExtensionsBlock>> ELSE <<>>)

\* writeDescriptionTo: the merge loop of lines 591-602
RECURSIVE DescriptionLoop(_, _, _, _)
DescriptionLoop(sf, se, i, j) ==
    IF ~(i < Len(sf) \/ j < Len(se)) THEN <<>>
    ELSE IF i = Len(sf) THEN <<RangeBlock(se[j + 1])>> \o DescriptionLoop(sf, se, i, j + 1)
    ELSE IF j = Len(se) THEN <<FieldBlock(sf[i + 1])>> \o DescriptionLoop(sf, se, i + 1, j)
    ELSE IF sf[i + 1] < se[j + 1].start
         THEN <<FieldBlock(sf[i + 1])>> \o DescriptionLoop(sf, se, i + 1, j)
    ELSE <<RangeBlock(se[j + 1])>> \o DescriptionLoop(sf, se, i, j + 1)

\* A description pass that walks the fields in declaration order.
GenerateDescription_Unsorted(fs, rs) ==
    DescriptionLoop(fs, SortedExtensions(rs), 0, 0)

GenerateDescription(fs, rs) ==
    DescriptionLoop(SortFieldsByNumber(fs), SortedExtensions(rs), 0, 0)

\* isEqual: the merge loop of lines 641-653
RECURSIVE IsEqualLoop(_, _, _, _)
IsEqualLoop(sf, se, i, j) ==
    IF ~(i < Len(sf) \/ j < Len(se)) THEN <<>>
    ELSE IF i = Len(sf) THEN <<RangeBlock(se[j + 1])>> \o IsEqualLoop(sf, se, i, j + 1)
    ELSE IF j = Len(se) THEN <<FieldBlock(sf[i + 1])>> \o IsEqualLoop(sf, se, i + 1, j)
    ELSE IF sf[i + 1] < se[j + 1].start
         THEN <<FieldBlock(sf[i + 1])>> \o IsEqualLoop(sf, se, i + 1, j)
    ELSE <<RangeBlock(se[j + 1])>> \o IsEqualLoop(sf, se, i, j + 1)

GenerateIsEqual(fs, rs) ==
    IsEqualLoop(SortFieldsByNumber(fs), SortedExtensions(rs), 0, 0)

\* hash: the merge loop of lines 683-694
RECURSIVE HashLoop(_, _, _, _)
HashLoop(sf, se, i, j) ==
    IF ~(i < Len(sf) \/ j < Len(se)) THEN <<>>
    ELSE IF i = Len(sf) THEN <<RangeBlock(se[j + 1])>> \o HashLoop(sf, se, i, j + 1)
    ELSE IF j = Len(se) THEN <<FieldBlock(sf[i + 1])>> \o HashLoop(sf, se, i + 1, j)
    ELSE IF sf[i + 1] < se[j + 1].start
         THEN <<FieldBlock(sf[i + 1])>> \o HashLoop(sf, se, i + 1, j)
    ELSE <<RangeBlock(se[j + 1])>> \o HashLoop(sf, se, i, j + 1)

GenerateHash(fs, rs) ==
    HashLoop(SortFieldsByNumber(fs), SortedExtensions(rs), 0, 0)


----------------------------------------------------------------------------
(* The type graph: message types, their extension ranges and their fields. *)

Types == {"A", "B", "C"}

\* A field as HasRequiredFields and GenerateIsInitializedSource read it:
\*   label  field->label()                  "required" / "optional" / "repeated"
\*   tag    HasRequiredTag(field)           the trailing comment holds [required=true]
\*   msg    field->message_type()           "none" unless cpp_type() is CPPTYPE_MESSAGE
Labels == {"required", "optional", "repeated"}
\*   enum   field->type() == TYPE_ENUM
\*   packed field->options().packed()
FieldSpecs == [label : Labels, tag : BOOLEAN, msg : Types \cup {"none"},
               enum : BOOLEAN, packed : BOOLEAN]

EmptySchema == [t \in Types |-> [ext |-> FALSE, fields |-> <<>>]]

\* fields and extension ranges declared so far
SchemaItems(sch) ==
    LET ts == CHOOSE q \in [1..Cardinality(Types) -> Types] : Range(q) = Types
    IN  SeqSum([k \in 1..Len(ts) |->
                  Len(sch[ts[k]].fields) + (IF sch[ts[k]].ext THEN 1 ELSE 0)])

\* static bool HasRequiredTag(const FieldDescriptor *field), lines 111-120
HasRequiredTag_Never(f) == FALSE
HasRequiredTag(f) == f.tag

\* field->is_required()
IsRequired(f) == f.label = "required"

\* field->cpp_type() == FieldDescriptor::CPPTYPE_MESSAGE
IsMessageField(f) == f.msg # "none"

\* type->extension_range_count() > 0
HasExtensionRanges(sch, t) == sch[t].ext

\* already_seen->count(type) > 0, line 130
AlreadySeen_NoCheck(seen, t) == FALSE
AlreadySeen(seen, t) == t \in seen

\* hash_set<const Descriptor *> already_seen; of the one-argument overload
\* (lines 168-171): a new, empty set for every top-level call
FreshMemo_Static(old) == old
FreshMemo(old) == {}

NoCounts == [t \in Types |-> 0]

\* no builder has been created
RtIdle ==
    /\ heap = <<>>
    /\ builder_type = "none"
    /\ builder_result = 0
    /\ handed = {}
    /\ last_op = [name |-> "none", ret |-> 0]
    /\ parsing = FALSE
    /\ input = <<>>
    /\ unknownFields = <<>>
    /\ wire_in = <<>>
    /\ output = <<>>

\* no class with a repeated scalar field has been generated
NoLimit == 0 - 1
NoField == [kind |-> "none", packed |-> FALSE, number |-> 0]
NoList == [nil |-> TRUE, list |-> <<>>]

PkIdle ==
    /\ pk_field = NoField
    /\ pk_list = <<>>
    /\ nameMemoizedSerializedSize = 0
    /\ memoizedSerializedSize = 0 - 1
    /\ pk_op = [name |-> "none", ret |-> 0]
    /\ pk_out = <<>>
    /\ pk_bytes = <<>>
    /\ pk_pos = 0
    /\ currentLimit = NoLimit
    /\ pk_dec = NoList
    /\ pk_pc = "idle"

\* Generate has not been called
NoError == [msg |-> "", key |-> ""]

GenIdle ==
    /\ options = <<>>
    /\ shouldDivideHeaders = FALSE
    /\ opt_i = 0
    /\ output_list_file = ""
    /\ error = NoError
    /\ opened = <<>>
    /\ returned = "none"
    /\ main_pc = "idle"

\* isEqual: and hash have not been called
NoCall == [self |-> 0, other |-> 0, ret |-> FALSE]

EqIdle ==
    /\ eq_op = NoCall
    /\ hash_ret = <<>>
    /\ isEqualToArray_nil = FALSE

AuxIdle == PkIdle /\ GenIdle /\ EqIdle

\* HasRequiredFields is not being run
ReqNotRunning ==
    /\ req_pc = "schema"
    /\ req_start = "none"
    /\ req_stack = <<>>
    /\ already_seen = {}
    /\ req_ret = "none"
    /\ req_result = "none"
    /\ req_prev = [type |-> "none", result |-> "none", other |-> FALSE]
    /\ req_inserts = NoCounts
    /\ req_past = 0
    /\ req_hits = 0
    /\ req_steps = 0

ReqIdle == schema = EmptySchema /\ ReqNotRunning

ReqInit == ReqIdle /\ desc_fields = <<>> /\ desc_ranges = <<>>
           /\ gen_pc = "declare" /\ emitted = NoEmission /\ RtIdle /\ AuxIdle

\* the analysis kinds of field: required, marked, plain scalar, plain message
AnalysisFields ==
    {f \in FieldSpecs :
        /\ ~f.enum /\ ~f.packed
        /\ \/ f.label = "required" /\ ~f.tag /\ f.msg = "none"
           \/ f.label = "optional" /\ f.msg = "none"
           \/ f.label = "optional" /\ ~f.tag /\ f.msg # "none"}

\* the schema gains a field of type t (descriptor order is declaration order)
DeclareTypeField(t, f) ==
    /\ req_pc = "schema"
    /\ SchemaItems(schema) < MaxSchemaItems
    /\ schema' = [schema EXCEPT ![t].fields = Append(@, f)]
    /\ UNCHANGED <<req_pc, req_start, req_stack, already_seen, req_ret, req_result,
                   req_prev, req_inserts, req_past, req_hits, req_steps, emitVars, rtVars, auxVars>>

\* type t gains an extension range
DeclareTypeExtension(t) ==
    /\ req_pc = "schema"
    /\ SchemaItems(schema) < MaxSchemaItems
    /\ ~schema[t].ext
    /\ schema' = [schema EXCEPT ![t].ext = TRUE]
    /\ UNCHANGED <<req_pc, req_start, req_stack, already_seen, req_ret, req_result,
                   req_prev, req_inserts, req_past, req_hits, req_steps, emitVars, rtVars, auxVars>>

\* static bool HasRequiredFields(const Descriptor *type), lines 168-171: a
\* top-level call with its own already_seen
ReqCall(t) ==
    /\ req_pc \in {"schema", "idle"}
    /\ req_pc' = "running"
    /\ req_start' = t
    /\ already_seen' = FreshMemo(already_seen)
    /\ req_stack' = <<[type |-> t, at |-> "enter", i |-> 0]>>
    /\ req_ret' = "none"
    /\ req_inserts' = NoCounts
    /\ req_past' = 0
    /\ req_hits' = 0
    /\ req_steps' = 0
    /\ UNCHANGED <<schema, req_result, req_prev, emitVars, rtVars, auxVars>>

Top == req_stack[Len(req_stack)]
Pop == SubSeq(req_stack, 1, Len(req_stack) - 1)
SetTop(fr) == [req_stack EXCEPT ![Len(req_stack)] = fr]

\* "return v;" of the call on top of the stack
Return(v) ==
    /\ req_stack' = Pop
    /\ req_ret' = v

\* lines 130-140: the type is in already_seen, return false
ReqMemoHit ==
    /\ req_pc = "running" /\ req_stack # <<>> /\ Top.at = "enter"
    /\ AlreadySeen(already_seen, Top.type)
    /\ Return("false")
    /\ req_hits' = req_hits + 1
    /\ req_steps' = req_steps + 1
    /\ UNCHANGED <<schema, req_pc, req_start, already_seen, req_result, req_prev,
                   req_inserts, req_past, emitVars, rtVars, auxVars>>

\* lines 141-148: insert the type; a type with extension ranges returns true
ReqVisit ==
    /\ req_pc = "running" /\ req_stack # <<>> /\ Top.at = "enter"
    /\ ~AlreadySeen(already_seen, Top.type)
    /\ already_seen' = already_seen \cup {Top.type}
    /\ req_inserts' = [req_inserts EXCEPT ![Top.type] = @ + 1]
    /\ req_past' = req_past + 1
    /\ req_steps' = req_steps + 1
    /\ IF HasExtensionRanges(schema, Top.type)
       THEN Return("true")
       ELSE /\ req_stack' = SetTop([Top EXCEPT !.at = "loop", !.i = 0])
            /\ req_ret' = "none"
    /\ UNCHANGED <<schema, req_pc, req_start, req_result, req_prev, req_hits, emitVars, rtVars, auxVars>>

\* lines 150-165: one iteration of the loop over the fields, up to the
\* recursive call or to a return
ReqField ==
    /\ req_pc = "running" /\ req_stack # <<>> /\ Top.at = "loop"
    /\ req_ret = "none"
    /\ req_steps' = req_steps + 1
    /\ LET fs == schema[Top.type].fields
       IN  IF ~(Top.i < Len(fs)) THEN Return("false")
           ELSE LET field == fs[Top.i + 1]
                IN  IF IsRequired(field) THEN Return("true")
                    ELSE IF HasRequiredTag(field) THEN Return("true")
                    ELSE IF IsMessageField(field)
                         THEN /\ req_stack' = Append(req_stack,
                                     [type |-> field.msg, at |-> "enter", i |-> 0])
                              /\ req_ret' = "none"
                    ELSE /\ req_stack' = SetTop([Top EXCEPT !.i = @ + 1])
                         /\ req_ret' = "none"
    /\ UNCHANGED <<schema, req_pc, req_start, already_seen, req_result, req_prev,
                   req_inserts, req_past, req_hits, emitVars, rtVars, auxVars>>

\* lines 159-161: the recursive call has returned
ReqResume ==
    /\ req_pc = "running" /\ req_stack # <<>> /\ Top.at = "loop"
    /\ req_ret # "none"
    /\ req_steps' = req_steps + 1
    /\ IF req_ret = "true" THEN Return("true")
       ELSE /\ req_stack' = SetTop([Top EXCEPT !.i = @ + 1])
            /\ req_ret' = "none"
    /\ UNCHANGED <<schema, req_pc, req_start, already_seen, req_result, req_prev,
                   req_inserts, req_past, req_hits, emitVars, rtVars, auxVars>>

\* line 170: the top-level call returns to the generator
ReqDone ==
    /\ req_pc = "running" /\ req_stack = <<>>
    /\ req_pc' = "idle"
    /\ req_result' = req_ret
    /\ req_prev' = IF req_prev.type = "none"
                   THEN [type |-> req_start, result |-> req_ret, other |-> FALSE]
                   ELSE [req_prev EXCEPT !.other = @ \/ req_start # req_prev.type]
    /\ UNCHANGED <<schema, req_start, req_stack, already_seen, req_ret,
                   req_inserts, req_past, req_hits, req_steps, emitVars, rtVars, auxVars>>

ReqStep == ReqMemoHit \/ ReqVisit \/ ReqField \/ ReqResume \/ ReqDone

ReqNext ==
    \/ \E t \in Types, f \in AnalysisFields : DeclareTypeField(t, f)
    \/ \E t \in Types : DeclareTypeExtension(t)
    \/ \E t \in Types : ReqCall(t)
    \/ ReqMemoHit
    \/ ReqVisit
    \/ ReqField
    \/ ReqResume
    \/ ReqDone

SpecReq == ReqInit /\ [][ReqNext]_vars

----------------------------------------------------------------------------
(* The generated classes at run time: message instances, the generated     *)
(* isInitialized, and the builder.  Field k of a type is sch[t].fields[k]. *)
(* A message-typed field holds the value of the instance it points to      *)
(* (<<>> stands for the type's defaultInstance); a repeated field holds    *)
(* its list, or nil.                                                       *)

MaxInstances == 2   \* instances allocated in one run
MaxElems == 1       \* elements of a list

\* the values the caller passes to the setters of scalar fields (the default
\* of a scalar field is 0)
ScalarValues == {1}

\* the field generators' GenerateInitializationSource: has flag NO, the
\* default value or defaultInstance; a list starts as nil
FreshField(f) ==
    [has |-> FALSE, val |-> IF IsMessageField(f) THEN <<>> ELSE 0,
     nil |-> TRUE, list |-> <<>>]

\* [[X alloc] init]
AllocInit(sch, t) ==
    [type |-> t,
     f |-> [k \in 1..Len(sch[t].fields) |-> FreshField(sch[t].fields[k])],
     ext_ok |-> TRUE,
     unknownFields |-> <<>>]

\* self.name of a singular message field
MessageOf(sch, v, k) ==
    IF v.f[k].val = <<>> THEN AllocInit(sch, sch[v.type].fields[k].msg)
    ELSE v.f[k].val[1]

\* HasRequiredFields as the generator calls it (lines 127-171), computed in
\* one piece: the result and the already_seen set it leaves behind
RECURSIVE HasRequiredFieldsSeen(_, _, _), HasRequiredFieldsLoop(_, _, _, _)
HasRequiredFieldsSeen(sch, t, seen) ==
    IF AlreadySeen(seen, t) THEN [r |-> FALSE, seen |-> seen]
    ELSE IF HasExtensionRanges(sch, t) THEN [r |-> TRUE, seen |-> seen \cup {t}]
    ELSE HasRequiredFieldsLoop(sch, t, seen \cup {t}, 1)

\* (a loop that looks at the type's own fields only)
HasRequiredFieldsLoop_OwnFieldsOnly(sch, t, seen, i) ==
    IF i > Len(sch[t].fields) THEN [r |-> FALSE, seen |-> seen]
    ELSE LET field == sch[t].fields[i]
         IN  IF IsRequired(field) \/ HasRequiredTag(field)
             THEN [r |-> TRUE, seen |-> seen]
             ELSE HasRequiredFieldsLoop(sch, t, seen, i + 1)
HasRequiredFieldsLoop(sch, t, seen, i) ==
    IF i > Len(sch[t].fields) THEN [r |-> FALSE, seen |-> seen]
    ELSE LET field == sch[t].fields[i]
         IN  IF IsRequired(field) \/ HasRequiredTag(field)
             THEN [r |-> TRUE, seen |-> seen]
             ELSE IF IsMessageField(field)
             THEN LET sub == HasRequiredFieldsSeen(sch, field.msg, seen)
                  IN  IF sub.r THEN sub
                      ELSE HasRequiredFieldsLoop(sch, t, sub.seen, i + 1)
             ELSE HasRequiredFieldsLoop(sch, t, seen, i + 1)

HasRequiredFields(sch, t) == HasRequiredFieldsSeen(sch, t, FreshMemo({})).r

RECURSIVE Flatten(_)
Flatten(ss) == IF ss = <<>> THEN <<>> ELSE Head(ss) \o Flatten(Tail(ss))

\* lines 1062-1086: the check printed for a field that carries the marker
GenerateRequiredFieldCheckSourceIfNeeded(f, k) ==
    IF ~HasRequiredTag(f) THEN <<>>
    ELSE IF f.label = "optional" THEN <<[chk |-> "has", k |-> k]>>
    ELSE IF f.label = "repeated" THEN <<[chk |-> "list", k |-> k]>>
    ELSE <<>>

\* lines 983-1060: the checks of isInitialized, in the order they are printed
\*   has         if (!self.hasX) return NO
\*   list        if (!self.x) return NO
\*   msg         if (!self.x.isInitialized) return NO
\*   hasmsg      if (self.hasX) { if (!self.x.isInitialized) return NO }
\*   elements    for (element in self.x) if (!element.isInitialized) return NO
\*   extensions  if (!self.extensionsAreInitialized) return NO
GenerateIsInitializedSource(sch, t) ==
    LET fs == sch[t].fields
        required == [k \in 1..Len(fs) |->
            IF IsRequired(fs[k]) THEN <<[chk |-> "has", k |-> k]>>
            ELSE GenerateRequiredFieldCheckSourceIfNeeded(fs[k], k)]
        embedded == [k \in 1..Len(fs) |->
            IF IsMessageField(fs[k]) /\ HasRequiredFields(sch, fs[k].msg)
            THEN IF fs[k].label = "required" THEN <<[chk |-> "msg", k |-> k]>>
                 ELSE IF fs[k].label = "optional"
                 THEN IF HasRequiredTag(fs[k]) THEN <<[chk |-> "msg", k |-> k]>>
                      ELSE <<[chk |-> "hasmsg", k |-> k]>>
                 ELSE <<[chk |-> "elements", k |-> k]>>
            ELSE <<>>]
        extensions == IF HasExtensionRanges(sch, t)
                      THEN <<[chk |-> "extensions", k |-> 0]>> ELSE <<>>
    IN  Flatten(required) \o Flatten(embedded) \o extensions

\* the generated - (BOOL) isInitialized, run on the instance v: the checks
\* in order, NO at the first that fails
RECURSIVE isInitialized(_, _), RunChecks(_, _, _, _)
isInitialized(sch, v) == RunChecks(sch, v, GenerateIsInitializedSource(sch, v.type), 1)

RunChecks(sch, v, cs, i) ==
    IF i > Len(cs) THEN TRUE
    ELSE LET c == cs[i]
             fails ==
                 IF c.chk = "has" THEN ~v.f[c.k].has
                 ELSE IF c.chk = "list" THEN v.f[c.k].nil
                 ELSE IF c.chk = "msg" THEN ~isInitialized(sch, MessageOf(sch, v, c.k))
                 ELSE IF c.chk = "hasmsg"
                 THEN v.f[c.k].has /\ ~isInitialized(sch, MessageOf(sch, v, c.k))
                 ELSE IF c.chk = "elements"
                 THEN \E e \in DOMAIN v.f[c.k].list : ~isInitialized(sch, v.f[c.k].list[e])
                 ELSE ~v.ext_ok
         IN  IF fails THEN FALSE ELSE RunChecks(sch, v, cs, i + 1)

\* the builder's members, applied to the working instance v
set(v, k, x) == [v EXCEPT !.f[k].has = TRUE, !.f[k].val = x]
clear_KeepsValue(sch, v, k) == [v EXCEPT !.f[k].has = FALSE, !.f[k].nil = TRUE, !.f[k].list = <<>>]
clear(sch, v, k) == [v EXCEPT !.f[k] = FreshField(sch[v.type].fields[k])]
add(v, k, x) == [v EXCEPT !.f[k].nil = FALSE, !.f[k].list = Append(@, x)]
setArray(v, k, arr) == [v EXCEPT !.f[k].nil = FALSE, !.f[k].list = arr]

\* - mergeFrom:other (lines 841-865) with the fields' merging code; other is
\* <<>> for the defaultInstance, <<o>> otherwise
RECURSIVE mergeFrom(_, _, _), MergeFields(_, _, _, _)

\* - merge$capitalized_name$:value of a singular message field
\* (objc_message_field.cc, lines 141-151); value is <<>> for the
\* defaultInstance, as the field's own value is
mergeMessage_Overwrite(sch, v, k, value) == set(v, k, value)
mergeMessage(sch, v, k, value) ==
    IF v.f[k].has /\ v.f[k].val # <<>>
    THEN set(v, k, <<mergeFrom(sch,
                        mergeFrom(sch, AllocInit(sch, sch[v.type].fields[k].msg),
                                  v.f[k].val),
                        value)>>)
    ELSE set(v, k, value)

\* the merging code of a repeated field (part_001, lines 664-677;
\* objc_enum_field.cc, lines 339-344; objc_message_field.cc, lines 404-417)
mergeRepeated_Appends(v, k, otherList) ==
    IF Len(otherList) > 0 THEN setArray(v, k, v.f[k].list \o otherList) ELSE v
mergeRepeated(v, k, otherList) ==
    IF Len(otherList) > 0 THEN setArray(v, k, otherList) ELSE v

mergeFrom(sch, v, other) ==
    IF other = <<>> THEN v
    ELSE LET m == MergeFields(sch, v, other[1], 1)
         IN  [m EXCEPT !.ext_ok = @ /\ other[1].ext_ok,
                       !.unknownFields = @ \o other[1].unknownFields]

MergeFields(sch, v, o, k) ==
    IF k > Len(v.f) THEN v
    ELSE LET f == sch[v.type].fields[k]
             merged ==
                 IF f.label = "repeated"
                 THEN mergeRepeated(v, k, o.f[k].list)
                 ELSE IF ~o.f[k].has THEN v
                 ELSE IF IsMessageField(f)
                 THEN mergeMessage(sch, v, k, o.f[k].val)
                 ELSE set(v, k, o.f[k].val)
         IN  MergeFields(sch, merged, o, k + 1)

\* - partiallyMergeFrom:other fieldIDs:ids (lines 926-981), from field k on
RECURSIVE partiallyMergeFrom(_, _, _, _, _)
partiallyMergeFrom_EveryField(sch, v, o, ids, k) ==
    IF k > Len(v.f) THEN v
    ELSE LET f == sch[v.type].fields[k]
             m == IF f.label = "repeated"
                  THEN IF ~o.f[k].nil THEN setArray(v, k, o.f[k].list)
                       ELSE clear(sch, v, k)
                  ELSE IF o.f[k].has THEN set(v, k, o.f[k].val)
                       ELSE clear(sch, v, k)
         IN  partiallyMergeFrom(sch, m, o, ids, k + 1)

partiallyMergeFrom(sch, v, o, ids, k) ==
    IF k > Len(v.f) THEN v
    ELSE LET f == sch[v.type].fields[k]
             m == IF k \notin ids THEN v
                  ELSE IF f.label = "repeated"
                  THEN IF ~o.f[k].nil THEN setArray(v, k, o.f[k].list)
                       ELSE clear(sch, v, k)
                  ELSE IF o.f[k].has THEN set(v, k, o.f[k].val)
                       ELSE clear(sch, v, k)
         IN  partiallyMergeFrom(sch, m, o, ids, k + 1)

----------------------------------------------------------------------------
(* The wire: a stream is a sequence of fields [num, wt, vals]; a "varint"   *)
(* field carries one value, a "len" field a packed run of values or an     *)
(* embedded message (vals are then the embedded message's fields).         *)

MaxInput == 2       \* fields of a stream given to the decoder
MaxRun == 2         \* values of a packed run on the wire

EnumValues == {0, 1}
WireValues == {1, 2}

\* $type$IsValidValue(value)
IsValidValue(x) == x \in EnumValues

\* WireFormat::WireTypeForField(field), as the case labels use it (line 902)
WireTypeForField(f) ==
    IF IsMessageField(f) \/ (f.label = "repeated" /\ f.packed)
    THEN "len" ELSE "varint"

\* objc_enum_field.cc 162-170 and 361-366: one value read by readEnum for
\* field k; the result is the working instance and the unknownFields builder
ParseEnumValue_NoValidation(f, v, u, k, x) ==
    [v |-> IF f.label = "repeated" THEN add(v, k, x) ELSE set(v, k, x), u |-> u]
ParseEnumValue(f, v, u, k, x) ==
    IF IsValidValue(x)
    THEN [v |-> IF f.label = "repeated" THEN add(v, k, x) ELSE set(v, k, x), u |-> u]
    ELSE [v |-> v, u |-> Append(u, [num |-> k, wt |-> "varint", vals |-> <<x>>])]

\* the values of one field of the stream, read one after the other (the
\* while loop over a packed run; a single value otherwise)
RECURSIVE ParseValues(_, _, _, _, _)
ParseValues(f, v, u, k, xs) ==
    IF xs = <<>> THEN [v |-> v, u |-> u]
    ELSE LET r == IF f.enum THEN ParseEnumValue(f, v, u, k, Head(xs))
                  ELSE [v |-> IF f.label = "repeated" THEN add(v, k, Head(xs))
                              ELSE set(v, k, Head(xs)),
                        u |-> u]
         IN  ParseValues(f, r.v, r.u, k, Tail(xs))

\* the case labels of the switch (lines 899-906): the tag of a declared field
IsCaseLabel(sch, t, e) ==
    /\ e.num \in DOMAIN sch[t].fields
    /\ WireTypeForField(sch[t].fields[e.num]) = e.wt

\* [self parseUnknownField:input unknownFields:... tag:tag] of the runtime's
\* builder base class: NO for an end-group tag (the comment of line 894),
\* otherwise the field goes to the unknown-field store and the answer is YES
parseUnknownField(u, e) ==
    IF e.wt = "endgroup" THEN [ok |-> FALSE, u |-> u]
    ELSE [ok |-> TRUE, u |-> Append(u, e)]

\* [self setUnknownFields:[unknownFields build]] (lines 889 and 892)
setUnknownFields_Dropped(v, u) == v
setUnknownFields(v, u) == [v EXCEPT !.unknownFields = u]

RECURSIVE ParseField(_, _, _, _), readMessage(_, _, _, _)

\* the parsing code of a message field (objc_message_field.cc, lines 182-199
\* and 422-436): a sub-builder, new for a repeated field and for an absent
\* singular one, reads the embedded message; the singular field is set to
\* the result, the repeated one has it added
ParseMessageField_MergesIntoLast(sch, v, k, body) ==
    LET f == sch[v.type].fields[k]
        list == v.f[k].list
    IN  IF f.label = "repeated" /\ list # <<>>
        THEN setArray(v, k, [list EXCEPT ![Len(list)] =
                 readMessage(sch, mergeFrom(sch, AllocInit(sch, f.msg), <<@>>),
                             @.unknownFields, body)])
        ELSE add(v, k, readMessage(sch, AllocInit(sch, f.msg), <<>>, body))
ParseMessageField(sch, v, k, body) ==
    LET f == sch[v.type].fields[k]
        subBuilder ==
            IF f.label # "repeated" /\ v.f[k].has
            THEN mergeFrom(sch, AllocInit(sch, f.msg), v.f[k].val)
            ELSE AllocInit(sch, f.msg)
        element == readMessage(sch, subBuilder, subBuilder.unknownFields, body)
    IN  IF f.label = "repeated" THEN add(v, k, element)
        ELSE set(v, k, <<element>>)

\* one iteration of the loop of mergeFromCodedInputStream (lines 882-912):
\* the case of the field's tag runs the field's parsing code, any other tag
\* goes to parseUnknownField
ParseField(sch, v, u, e) ==
    LET fs == sch[v.type].fields
    IN  IF ~IsCaseLabel(sch, v.type, e)
        THEN [v |-> v, u |-> parseUnknownField(u, e).u]
        ELSE LET f == fs[e.num]
                 k == e.num
             IN  IF IsMessageField(f)
                 THEN [v |-> ParseMessageField(sch, v, k, e.vals), u |-> u]
                 ELSE IF f.label = "repeated" /\ f.packed /\ ~f.enum
                 THEN ParseValues(f, [v EXCEPT !.f[k].nil = FALSE], u, k, e.vals)
                 ELSE ParseValues(f, v, u, k, e.vals)

\* [input readMessage:subBuilder extensionRegistry:]: the sub-builder's
\* mergeFromCodedInputStream (lines 873-912) on the embedded message, from
\* the first tag to the end of the body or to an end-group tag
readMessage(sch, v, u, body) ==
    IF body = <<>> THEN setUnknownFields(v, u)
    ELSE IF ~IsCaseLabel(sch, v.type, Head(body))
            /\ ~parseUnknownField(u, Head(body)).ok
    THEN setUnknownFields(v, u)
    ELSE LET r == ParseField(sch, v, u, Head(body))
         IN  readMessage(sch, r.v, r.u, Tail(body))

\* the fields' serialization code and writeToCodedOutputStream (lines
\* 518-538): the fields in number order, then the unknown fields
RECURSIVE writeToCodedOutputStream(_, _)
writeToCodedOutputStream(sch, v) ==
    LET fs == sch[v.type].fields
        one(k) ==
            IF fs[k].label = "repeated"
            THEN IF IsMessageField(fs[k])
                 THEN [i \in 1..Len(v.f[k].list) |->
                          [num |-> k, wt |-> "len",
                           vals |-> writeToCodedOutputStream(sch, v.f[k].list[i])]]
                 ELSE IF fs[k].packed
                 THEN IF Len(v.f[k].list) > 0
                      THEN <<[num |-> k, wt |-> "len", vals |-> v.f[k].list]>>
                      ELSE <<>>
                 ELSE [i \in 1..Len(v.f[k].list) |->
                          [num |-> k, wt |-> "varint", vals |-> <<v.f[k].list[i]>>]]
            ELSE IF ~v.f[k].has THEN <<>>
            ELSE IF IsMessageField(fs[k])
            THEN <<[num |-> k, wt |-> "len",
                    vals |-> writeToCodedOutputStream(sch, MessageOf(sch, v, k))]>>
            ELSE <<[num |-> k, wt |-> "varint", vals |-> <<v.f[k].val>>]>>
    IN  Flatten([k \in 1..Len(fs) |-> one(k)]) \o v.unknownFields

\* the streams the decoder is given: fields of the class t, with either wire
\* type; an embedded message on the wire is empty
WireFields(sch, t) ==
    IF t = "none" THEN {} ELSE
    {e \in [num : DOMAIN sch[t].fields, wt : {"varint", "len"},
            vals : UNION {[1..n -> WireValues] : n \in 0..MaxRun}] :
        /\ e.wt = "varint" => Len(e.vals) = 1
        /\ IsMessageField(sch[t].fields[e.num]) /\ e.wt = "len" => e.vals = <<>>}

----------------------------------------------------------------------------
(* The builder in use.  Every member reads and writes the working instance *)
(* through builder_result; a message sent to nil does nothing and answers  *)
(* nil / NO.                                                               *)

\* builder_result.x = ... : the working instance becomes Op(instance)
Mutate(Op(_)) ==
    heap' = IF builder_result = 0 THEN heap
            ELSE [heap EXCEPT ![builder_result] = Op(@)]

BuilderFields == IF builder_type = "none" THEN <<>> ELSE schema[builder_type].fields

\* the values a caller holds for a field of message type t: the
\* defaultInstance and the instances handed out
Instances(t) == {heap[i] : i \in {j \in handed : heap[j].type = t}}

Elements(f) == IF IsMessageField(f) THEN Instances(f.msg) ELSE ScalarValues

\* a member other than build / buildPartial returns the builder itself
Called == last_op' = [name |-> "call", ret |-> 0]

\* [[X_Builder alloc] init], lines 773-779
NewBuilder(t) ==
    /\ ~parsing /\ builder_result = 0 /\ Len(heap) < MaxInstances
    /\ heap' = Append(heap, AllocInit(schema, t))
    /\ builder_type' = t
    /\ builder_result' = Len(heap) + 1
    /\ Called
    /\ UNCHANGED <<handed, parsing, input, unknownFields, wire_in, output,
                   emitVars, reqVars, auxVars>>

\* - setX: of a singular field (a message-typed one takes an instance)
SetField(k) ==
    /\ ~parsing /\ k \in DOMAIN BuilderFields /\ BuilderFields[k].label # "repeated"
    /\ \E x \in IF IsMessageField(BuilderFields[k])
                THEN {<<>>} \cup {<<i>> : i \in Instances(BuilderFields[k].msg)}
                ELSE ScalarValues :
           Mutate(LAMBDA v : set(v, k, x))
    /\ Called
    /\ UNCHANGED <<builder_type, builder_result, handed, parsing, input,
                   unknownFields, wire_in, output, emitVars, reqVars, auxVars>>

\* - clearX
ClearField(k) ==
    /\ ~parsing /\ k \in DOMAIN BuilderFields
    /\ Mutate(LAMBDA v : clear(schema, v, k))
    /\ Called
    /\ UNCHANGED <<builder_type, builder_result, handed, parsing, input,
                   unknownFields, wire_in, output, emitVars, reqVars, auxVars>>

\* - addX: of a repeated field
AddElement(k) ==
    /\ ~parsing /\ k \in DOMAIN BuilderFields /\ BuilderFields[k].label = "repeated"
    /\ builder_result # 0 => Len(heap[builder_result].f[k].list) < MaxElems
    /\ \E x \in Elements(BuilderFields[k]) : Mutate(LAMBDA v : add(v, k, x))
    /\ Called
    /\ UNCHANGED <<builder_type, builder_result, handed, parsing, input,
                   unknownFields, wire_in, output, emitVars, reqVars, auxVars>>

\* - setXArray: of a repeated field
SetArray(k) ==
    /\ ~parsing /\ k \in DOMAIN BuilderFields /\ BuilderFields[k].label = "repeated"
    /\ \E arr \in UNION {[1..n -> Elements(BuilderFields[k])] : n \in 0..MaxElems} :
           Mutate(LAMBDA v : setArray(v, k, arr))
    /\ Called
    /\ UNCHANGED <<builder_type, builder_result, handed, parsing, input,
                   unknownFields, wire_in, output, emitVars, reqVars, auxVars>>

\* - mergeFrom:other
MergeFromOther(other) ==
    /\ ~parsing /\ builder_type # "none"
    /\ Mutate(LAMBDA v : mergeFrom(schema, v, other))
    /\ Called
    /\ UNCHANGED <<builder_type, builder_result, handed, parsing, input,
                   unknownFields, wire_in, output, emitVars, reqVars, auxVars>>

MergeFrom ==
    \E other \in {<<>>} \cup {<<i>> : i \in Instances(builder_type)} :
        MergeFromOther(other)

\* - partiallyMergeFrom:other fieldIDs:ids
PartiallyMergeFrom ==
    /\ ~parsing /\ builder_type # "none"
    /\ \E o \in {AllocInit(schema, builder_type)} \cup Instances(builder_type),
          ids \in SUBSET DOMAIN BuilderFields :
           Mutate(LAMBDA v : partiallyMergeFrom(schema, v, o, ids, 1))
    /\ Called
    /\ UNCHANGED <<builder_type, builder_result, handed, parsing, input,
                   unknownFields, wire_in, output, emitVars, reqVars, auxVars>>

\* setExtension / clearExtension of an extendable builder: the extensions
\* the instance holds are, or are not, all initialized
SetExtension(ok) ==
    /\ ~parsing /\ builder_type # "none" /\ HasExtensionRanges(schema, builder_type)
    /\ Mutate(LAMBDA v : [v EXCEPT !.ext_ok = ok])
    /\ Called
    /\ UNCHANGED <<builder_type, builder_result, handed, parsing, input,
                   unknownFields, wire_in, output, emitVars, reqVars, auxVars>>

\* self.builder_result = nil, line 836
Detach_KeepsResult(r) == r
Detach(r) == 0

\* the body of buildPartial (lines 825-838), entered through the member name
ReturnResult(name) ==
    /\ last_op' = [name |-> name, ret |-> builder_result]
    /\ handed' = IF builder_result = 0 THEN handed ELSE handed \cup {builder_result}
    /\ builder_result' = Detach(builder_result)
    /\ UNCHANGED <<heap, builder_type, parsing, input, unknownFields, wire_in,
                   output, emitVars, reqVars, auxVars>>

\* [self checkInitialized] of the runtime's builder base class returns when
\* the builder's isInitialized (that of its result) says YES, throws otherwise
checkInitialized ==
    builder_result # 0 /\ isInitialized(schema, heap[builder_result])

\* - build, lines 820-824: ret -1 stands for the exception
build_Unchecked ==
    /\ ~parsing /\ builder_type # "none"
    /\ ReturnResult("build")
build ==
    /\ ~parsing /\ builder_type # "none"
    /\ IF checkInitialized THEN ReturnResult("build")
       ELSE /\ last_op' = [name |-> "build", ret |-> -1]
            /\ UNCHANGED <<heap, builder_type, builder_result, handed, parsing,
                           input, unknownFields, wire_in, output, emitVars, reqVars, auxVars>>

\* - buildPartial
buildPartial ==
    /\ ~parsing /\ builder_type # "none"
    /\ ReturnResult("buildPartial")

\* - mergeFromCodedInputStream: up to the loop (lines 873-880)
mergeFromCodedInputStream(in) ==
    /\ ~parsing /\ builder_type # "none"
    /\ parsing' = TRUE
    /\ input' = in
    /\ wire_in' = in
    /\ unknownFields' = IF builder_result = 0 THEN <<>>
                        ELSE heap[builder_result].unknownFields
    /\ Called
    /\ UNCHANGED <<heap, builder_type, builder_result, handed, output,
                   emitVars, reqVars, auxVars>>

\* one iteration of the loop on the next field of the stream
ParseStep ==
    /\ parsing /\ input # <<>>
    /\ IsCaseLabel(schema, builder_type, Head(input))
           \/ parseUnknownField(unknownFields, Head(input)).ok
    /\ LET w == IF builder_result = 0 THEN AllocInit(schema, builder_type)
                ELSE heap[builder_result]
           r == ParseField(schema, w, unknownFields, Head(input))
       IN  /\ Mutate(LAMBDA v : r.v)
           /\ unknownFields' = r.u
    /\ input' = Tail(input)
    /\ UNCHANGED <<builder_type, builder_result, handed, last_op, parsing,
                   wire_in, output, emitVars, reqVars, auxVars>>

\* case 0 (lines 888-890): [self setUnknownFields:[unknownFields build]]
ParseEnd ==
    /\ parsing /\ input = <<>>
    /\ Mutate(LAMBDA v : setUnknownFields(v, unknownFields))
    /\ parsing' = FALSE
    /\ unknownFields' = <<>>
    /\ UNCHANGED <<builder_type, builder_result, handed, last_op, input,
                   wire_in, output, emitVars, reqVars, auxVars>>

\* default (lines 891-897) when parseUnknownField says NO: the unknown
\* fields are stored and the method returns, the rest of the stream unread
ParseReturn ==
    /\ parsing /\ input # <<>>
    /\ ~IsCaseLabel(schema, builder_type, Head(input))
    /\ ~parseUnknownField(unknownFields, Head(input)).ok
    /\ Mutate(LAMBDA v : setUnknownFields(v, unknownFields))
    /\ parsing' = FALSE
    /\ unknownFields' = <<>>
    /\ UNCHANGED <<builder_type, builder_result, handed, last_op, input,
                   wire_in, output, emitVars, reqVars, auxVars>>

\* - writeToCodedOutputStream: of an instance handed out
Serialize(i) ==
    /\ ~parsing /\ i \in handed
    /\ output' = writeToCodedOutputStream(schema, heap[i])
    /\ last_op' = [name |-> "writeTo", ret |-> i]
    /\ UNCHANGED <<heap, builder_type, builder_result, handed, parsing, input,
                   unknownFields, wire_in, emitVars, reqVars, auxVars>>

----------------------------------------------------------------------------
(* SpecBuilder: the classes generated for a schema of two message types,   *)
(* A with one field of any kind and B with one scalar field, and           *)
(* a caller that creates builders and calls their members in any order.    *)

Field(l, g, m) == [label |-> l, tag |-> g, msg |-> m, enum |-> FALSE, packed |-> FALSE]

BuilderSchemas ==
    {[EmptySchema EXCEPT !["A"] = [ext |-> x, fields |-> <<Field(l[1], l[2], m)>>],
                         !["B"] = [ext |-> FALSE, fields |-> b]] :
        x \in BOOLEAN,
        l \in {<<"required", FALSE>>, <<"optional", FALSE>>, <<"optional", TRUE>>,
               <<"repeated", FALSE>>, <<"repeated", TRUE>>},
        m \in {"none", "A", "B"},
        b \in {<<Field("required", FALSE, "none")>>,
               <<Field("optional", FALSE, "none")>>}}

\* the streams given to the builder in use: one field the class knows, and
\* no more elements than a list may hold
BuilderStreams ==
    {<<e>> : e \in {w \in WireFields(schema, builder_type) :
        /\ w.wt = WireTypeForField(BuilderFields[w.num])
        /\ \A i \in DOMAIN w.vals : w.vals[i] \in ScalarValues
        /\ (builder_result # 0 /\ BuilderFields[w.num].label = "repeated")
               => Len(heap[builder_result].f[w.num].list) < MaxElems}}

BuilderInit ==
    /\ schema \in BuilderSchemas
    /\ ReqNotRunning
    /\ RtIdle
    /\ AuxIdle
    /\ desc_fields = <<>> /\ desc_ranges = <<>>
    /\ gen_pc = "declare" /\ emitted = NoEmission

BuilderNext ==
    \/ \E t \in {"A", "B"} : NewBuilder(t)
    \/ \E k \in DOMAIN BuilderFields : SetField(k)
    \/ \E k \in DOMAIN BuilderFields : ClearField(k)
    \/ \E k \in DOMAIN BuilderFields : AddElement(k)
    \/ \E k \in DOMAIN BuilderFields : SetArray(k)
    \/ MergeFrom
    \/ PartiallyMergeFrom
    \/ SetExtension(FALSE)
    \/ SetExtension(TRUE)
    \/ build
    \/ buildPartial
    \/ ~parsing /\ \E in \in BuilderStreams : mergeFromCodedInputStream(in)
    \/ ParseStep
    \/ ParseEnd

SpecBuilder == BuilderInit /\ [][BuilderNext]_vars

----------------------------------------------------------------------------
(* SpecRec: the builder's members on a schema whose two message types      *)
(* refer to each other (A holds a B; B holds an A, a B or a scalar).       *)

RecSchemas ==
    {[EmptySchema EXCEPT !["A"] = [ext |-> FALSE, fields |-> <<Field(la, FALSE, "B")>>],
                         !["B"] = [ext |-> x, fields |-> <<Field(lb, FALSE, m)>>]] :
        x \in BOOLEAN,
        la \in Labels,
        lb \in {"required", "optional"},
        m \in {"none", "A", "B"}}

RecInit ==
    /\ schema \in RecSchemas
    /\ ReqNotRunning
    /\ RtIdle
    /\ AuxIdle
    /\ desc_fields = <<>> /\ desc_ranges = <<>>
    /\ gen_pc = "declare" /\ emitted = NoEmission

SpecRec == RecInit /\ [][BuilderNext]_vars

----------------------------------------------------------------------------
(* SpecEnum: a class with an enum field (singular, repeated or packed) and *)
(* a scalar field, in either order; a caller decodes one stream into a new *)
(* builder, takes the instance and writes it out again.                    *)

EnumSchemas ==
    {[EmptySchema EXCEPT !["A"] = [ext |-> FALSE, fields |-> fs]] :
        fs \in UNION {
            {<<[Field(l[1], FALSE, "none") EXCEPT !.enum = TRUE, !.packed = l[2]],
               Field("optional", FALSE, "none")>>,
             <<Field("optional", FALSE, "none"),
               [Field(l[1], FALSE, "none") EXCEPT !.enum = TRUE, !.packed = l[2]]>>} :
            l \in {<<"optional", FALSE>>, <<"repeated", FALSE>>, <<"repeated", TRUE>>}}}

\* the streams given to the decoder: up to MaxInput fields; the enum field
\* comes with either wire type and any value, the scalar field as written
EnumStreams ==
    LET ws == {w \in WireFields(schema, "A") :
                  ~schema["A"].fields[w.num].enum =>
                      w.wt = "varint" /\ w.vals = <<1>>}
    IN  UNION {[1..n -> ws] : n \in 0..MaxInput}

EnumInit ==
    /\ schema \in EnumSchemas
    /\ ReqNotRunning
    /\ RtIdle
    /\ AuxIdle
    /\ desc_fields = <<>> /\ desc_ranges = <<>>
    /\ gen_pc = "declare" /\ emitted = NoEmission

EnumNext ==
    \/ heap = <<>> /\ NewBuilder("A")
    \/ /\ ~parsing /\ builder_result # 0
       /\ heap[builder_result] = AllocInit(schema, "A")
       /\ \E in \in EnumStreams : mergeFromCodedInputStream(in)
    \/ ParseStep
    \/ ParseEnd
    \/ buildPartial
    \/ \E i \in handed : Serialize(i)

SpecEnum == EnumInit /\ [][EnumNext]_vars

----------------------------------------------------------------------------
(* The decode loop on streams with tags the class does not declare.        *)

\* one class with an optional scalar field 1, with or without a repeated
\* scalar field 2
DecodeSchemas ==
    {[EmptySchema EXCEPT !["A"] = [ext |-> FALSE, fields |-> fs]] :
        fs \in {<<Field("optional", FALSE, "none")>>,
                <<Field("optional", FALSE, "none"),
                  Field("repeated", FALSE, "none")>>}}

\* the streams: fields 1..3 with any of three wire types, so that some tags
\* are case labels and others are not, end-group tags among them
DecodeStreams ==
    LET ws == {e \in [num : 1..3,
                      wt : {"varint", "len", "endgroup"},
                      vals : {<<>>, <<1>>}] :
                  (e.wt = "varint") <=> (e.vals = <<1>>)}
    IN  UNION {[1..n -> ws] : n \in 0..MaxInput}

DecodeInit ==
    /\ schema \in DecodeSchemas
    /\ ReqNotRunning
    /\ RtIdle
    /\ AuxIdle
    /\ desc_fields = <<>> /\ desc_ranges = <<>>
    /\ gen_pc = "declare" /\ emitted = NoEmission

DecodeNext ==
    \/ heap = <<>> /\ NewBuilder("A")
    \/ /\ ~parsing /\ builder_result # 0
       /\ heap[builder_result].unknownFields = <<>>
       /\ \A k \in DOMAIN BuilderFields :
              Len(heap[builder_result].f[k].list) < MaxElems
       /\ \E in \in DecodeStreams : mergeFromCodedInputStream(in)
    \/ ParseStep
    \/ ParseEnd
    \/ ParseReturn

SpecDecode == DecodeInit /\ [][DecodeNext]_vars

----------------------------------------------------------------------------
(* SpecSub: a class A with a repeated field of message type B; a caller    *)
(* decodes streams of embedded messages into a builder of A, a second      *)
(* stream on top of the first.                                             *)

SubSchemas ==
    {[EmptySchema EXCEPT
         !["A"] = [ext |-> FALSE, fields |-> <<Field("repeated", FALSE, "B")>>],
         !["B"] = [ext |-> FALSE,
                   fields |-> <<Field("optional", FALSE, "none"),
                                Field("optional", FALSE, "none")>>]]}

\* the embedded messages on the wire: the fields of B they carry
SubBodies ==
    LET w(n, x) == [num |-> n, wt |-> "varint", vals |-> <<x>>]
    IN  {<<>>, <<w(1, 1)>>, <<w(1, 2)>>, <<w(2, 1)>>, <<w(1, 1), w(2, 2)>>,
         <<w(1, 1), w(1, 2)>>}

SubStreams ==
    UNION {[1..n -> {[num |-> 1, wt |-> "len", vals |-> b] : b \in SubBodies}] :
              n \in 0..MaxInput}

SubInit ==
    /\ schema \in SubSchemas
    /\ ReqNotRunning
    /\ RtIdle
    /\ AuxIdle
    /\ desc_fields = <<>> /\ desc_ranges = <<>>
    /\ gen_pc = "declare" /\ emitted = NoEmission

SubNext ==
    \/ heap = <<>> /\ NewBuilder("A")
    \/ /\ ~parsing /\ builder_result # 0
       /\ Len(heap[builder_result].f[1].list) <= 1
       /\ \E in \in SubStreams : mergeFromCodedInputStream(in)
    \/ ParseStep
    \/ ParseEnd

SpecSub == SubInit /\ [][SubNext]_vars

----------------------------------------------------------------------------
(* mergeFrom: of a builder on another instance of its class.               *)

\* the values of the scalar fields of the two instances
MergeValues == {1, 2}

\* class A with a singular message field and a repeated scalar field, or
\* with a repeated message field and a repeated enum field; class B with two
\* optional scalar fields
MergeSchemas ==
    {[EmptySchema EXCEPT
         !["A"] = [ext |-> FALSE, fields |-> fs],
         !["B"] = [ext |-> FALSE,
                   fields |-> <<Field("optional", FALSE, "none"),
                                Field("optional", FALSE, "none")>>]] :
        fs \in {<<Field("optional", FALSE, "B"), Field("repeated", FALSE, "none")>>,
                <<Field("repeated", FALSE, "B"),
                  [Field("repeated", FALSE, "none") EXCEPT !.enum = TRUE]>>}}

\* the instances of B a builder of B can hand out
InstancesOfB(sch) ==
    {[AllocInit(sch, "B") EXCEPT !.f = fv] :
        fv \in [1..2 -> {FreshField(sch["B"].fields[1])}
                        \cup {[has |-> TRUE, val |-> x, nil |-> TRUE, list |-> <<>>] :
                                 x \in MergeValues}]}

\* the states a builder of A can bring a field of its instance into
FieldStates(sch, f) ==
    LET elems == IF IsMessageField(f)
                 THEN {b \in InstancesOfB(sch) : ~b.f[2].has}
                 ELSE IF f.enum THEN EnumValues ELSE MergeValues
    IN  IF f.label = "repeated"
        THEN {FreshField(f)}
             \cup {[FreshField(f) EXCEPT !.nil = FALSE, !.list = l] :
                      l \in UNION {[1..n -> elems] : n \in 0..MaxElems}}
        ELSE {FreshField(f)}
             \cup {[FreshField(f) EXCEPT !.has = TRUE, !.val = x] :
                      x \in {<<>>} \cup {<<b>> : b \in InstancesOfB(sch)}}

InstancesOfA(sch) ==
    {[AllocInit(sch, "A") EXCEPT !.f = fv] :
        fv \in {<<a, b>> : a \in FieldStates(sch, sch["A"].fields[1]),
                            b \in FieldStates(sch, sch["A"].fields[2])}}

\* a builder of A working on instance 1, and an instance 2 handed out before
MergeInit ==
    /\ schema \in MergeSchemas
    /\ heap \in [1..2 -> InstancesOfA(schema)]
    /\ builder_type = "A"
    /\ builder_result = 1
    /\ handed = {2}
    /\ last_op = [name |-> "none", ret |-> 0]
    /\ parsing = FALSE
    /\ input = <<>> /\ unknownFields = <<>> /\ wire_in = <<>> /\ output = <<>>
    /\ ReqNotRunning
    /\ AuxIdle
    /\ desc_fields = <<>> /\ desc_ranges = <<>>
    /\ gen_pc = "declare" /\ emitted = NoEmission

MergeNext ==
    \/ builder_result # 0 /\ MergeFromOther(<<heap[2]>>)
    \/ builder_result # 0 /\ buildPartial

SpecMerge == MergeInit /\ [][MergeNext]_vars

\* the same builder and instance, and a caller of partiallyMergeFrom:fieldIDs:
PartialNext ==
    \/ builder_result # 0 /\ PartiallyMergeFrom
    \/ builder_result # 0 /\ buildPartial

SpecPartial == MergeInit /\ [][PartialNext]_vars

----------------------------------------------------------------------------
(* isEqual: and hash of the generated classes (objc_message.cc, lines      *)
(* 612-703, with the fields' fragments), called on two instances of a      *)
(* class that started identical and of which a builder changed one.        *)

\* [self.list isEqualToArray:other.list]: a message to nil answers NO; two
\* arrays are equal when they hold equal elements in the same order; what an
\* empty array answers for nil is the runtime's
RECURSIVE isEqual(_, _, _)
isEqualToArray(sch, f, x, y) ==
    IF x.nil THEN FALSE
    ELSE IF y.nil THEN x.list = <<>> /\ isEqualToArray_nil
    ELSE /\ Len(x.list) = Len(y.list)
         /\ \A i \in DOMAIN x.list :
                IF IsMessageField(f) THEN isEqual(sch, x.list[i], y.list[i])
                ELSE x.list[i] = y.list[i]

\* the fragment of one field in the conjunction of isEqual: (part_001, lines
\* 472-481 and 803-805; objc_enum_field.cc, lines 199-203 and 447-449;
\* objc_message_field.cc, lines 231-235 and 462-464)
GenerateIsEqualCodeSource_PresenceOnly(sch, a, b, k) ==
    LET f == sch[a.type].fields[k]
    IN  IF f.label = "repeated"
        THEN (a.f[k].nil /\ b.f[k].nil) \/ isEqualToArray(sch, f, a.f[k], b.f[k])
        ELSE a.f[k].has = b.f[k].has
GenerateIsEqualCodeSource(sch, a, b, k) ==
    LET f == sch[a.type].fields[k]
    IN  IF f.label = "repeated"
        THEN (a.f[k].nil /\ b.f[k].nil) \/ isEqualToArray(sch, f, a.f[k], b.f[k])
        ELSE /\ a.f[k].has = b.f[k].has
             /\ \/ ~a.f[k].has
                \/ IF IsMessageField(f)
                   THEN isEqual(sch, MessageOf(sch, a, k), MessageOf(sch, b, k))
                   ELSE a.f[k].val = b.f[k].val

\* - (BOOL) isEqual:(id)other, lines 622-663
isEqual(sch, a, b) ==
    /\ a.type = b.type
    /\ \A k \in DOMAIN a.f : GenerateIsEqualCodeSource(sch, a, b, k)
    /\ HasExtensionRanges(sch, a.type) => a.ext_ok = b.ext_ok
    /\ a.unknownFields = b.unknownFields

\* NSUInteger arithmetic wraps; the model keeps the low 16 bits of hashCode
HashWord == 65536

\* [self.unknownFields hash] and [self hashExtensionsFrom:to:]
HashOfUnknownFields(u) == SeqSum([i \in DOMAIN u |-> u[i].num])
hashExtensions(a) == IF a.ext_ok THEN 1 ELSE 0

RECURSIVE hash(_, _), HashFields(_, _, _, _), HashElements(_, _, _, _)

\* hashCode = hashCode * 31 + x
HashStep(hashCode, x) == (hashCode * 31 + x) % HashWord

\* the loop over the elements of a repeated field (part_001, lines 807-820;
\* objc_enum_field.cc, lines 451-463; objc_message_field.cc, lines 466-476)
HashElements(sch, f, list, hashCode) ==
    IF list = <<>> THEN hashCode
    ELSE HashElements(sch, f, Tail(list),
             HashStep(hashCode, IF IsMessageField(f) THEN hash(sch, Head(list))
                                ELSE Head(list)))

\* the fragment of one field (part_001, lines 483-491; objc_enum_field.cc,
\* lines 205-210; objc_message_field.cc, lines 237-242)
GenerateHashCodeSource(sch, a, k, hashCode) ==
    LET f == sch[a.type].fields[k]
    IN  IF f.label = "repeated" THEN HashElements(sch, f, a.f[k].list, hashCode)
        ELSE IF ~a.f[k].has THEN hashCode
        ELSE HashStep(hashCode, IF IsMessageField(f)
                                THEN hash(sch, MessageOf(sch, a, k))
                                ELSE a.f[k].val)

\* the fragments in the order of the field numbers, the extension range
\* after the fields
HashFields(sch, a, k, hashCode) ==
    IF k > Len(a.f)
    THEN IF HasExtensionRanges(sch, a.type)
         THEN HashStep(hashCode, hashExtensions(a)) ELSE hashCode
    ELSE HashFields(sch, a, k + 1, GenerateHashCodeSource(sch, a, k, hashCode))

\* - (NSUInteger) hash, lines 676-702
hash(sch, a) ==
    HashStep(HashFields(sch, a, 1, 7), HashOfUnknownFields(a.unknownFields))

EqFrame == <<builder_type, builder_result, handed, last_op, parsing, input,
             unknownFields, wire_in, output, heap, isEqualToArray_nil,
             emitVars, reqVars, pkVars, genVars>>

IsEqualCall(i, j) ==
    /\ eq_op' = [self |-> i, other |-> j, ret |-> isEqual(schema, heap[i], heap[j])]
    /\ UNCHANGED <<hash_ret, EqFrame>>

HashCall(i) ==
    /\ hash_ret[i] = 0 - 1
    /\ hash_ret' = [hash_ret EXCEPT ![i] = hash(schema, heap[i])]
    /\ UNCHANGED <<eq_op, EqFrame>>

\* an instance of B a caller holds: its first field is 1
HeldB(sch) == set(AllocInit(sch, "B"), 1, 1)

\* the unknown fields a decoded instance can hold
EqualUnknowns == {<<>>, <<[num |-> 3, wt |-> "varint", vals |-> <<1>>]>>}

\* an instance of A (instance 1), a builder made from it and working on its
\* copy (instance 2), and an instance of B
EqualInit ==
    /\ schema \in MergeSchemas
    /\ \E a \in InstancesOfA(schema), u \in EqualUnknowns :
           heap = <<[a EXCEPT !.unknownFields = u],
                    [a EXCEPT !.unknownFields = u], HeldB(schema)>>
    /\ builder_type = "A"
    /\ builder_result = 2
    /\ handed = {1, 3}
    /\ last_op = [name |-> "none", ret |-> 0]
    /\ parsing = FALSE
    /\ input = <<>> /\ unknownFields = <<>> /\ wire_in = <<>> /\ output = <<>>
    /\ eq_op = NoCall
    /\ hash_ret = <<0 - 1, 0 - 1>>
    /\ isEqualToArray_nil \in BOOLEAN
    /\ ReqNotRunning
    /\ PkIdle /\ GenIdle
    /\ desc_fields = <<>> /\ desc_ranges = <<>>
    /\ gen_pc = "declare" /\ emitted = NoEmission

\* the builder changes one field; the caller compares and hashes
Untouched == heap[1] = heap[2] /\ eq_op = NoCall /\ hash_ret = <<0 - 1, 0 - 1>>

EqualNext ==
    \/ Untouched /\ \E k \in DOMAIN BuilderFields : SetField(k)
    \/ Untouched /\ \E k \in DOMAIN BuilderFields : ClearField(k)
    \/ Untouched /\ \E k \in DOMAIN BuilderFields : AddElement(k)
    \/ Untouched /\ \E k \in DOMAIN BuilderFields : SetArray(k)
    \/ \E i, j \in 1..2 : i # j /\ IsEqualCall(i, j)
    \/ \E i \in 1..2 : HashCall(i)

SpecEqual == EqualInit /\ [][EqualNext]_vars

----------------------------------------------------------------------------
(* SpecEmit: a message is declared field by field and range by range (any  *)
(* declaration order), then MessageGenerator::GenerateSource runs its      *)
(* passes over it.                                                         *)

\* the fixture of the specification: fields 1, 5, 9 and ranges [2,4), [6,8),
\* declared out of order
FixtureFields == <<9, 1, 5>>
FixtureRanges == <<[start |-> 6, end |-> 8], [start |-> 2, end |-> 4]>>

\* numbers covered by the declared ranges (ranges are half-open)
Covered(rs) == UNION {r.start .. (r.end - 1) : r \in Range(rs)}

EmitInit ==
    /\ \/ desc_fields = <<>> /\ desc_ranges = <<>>
       \/ desc_fields = FixtureFields /\ desc_ranges = FixtureRanges
    /\ gen_pc = "declare"
    /\ emitted = NoEmission
    /\ ReqIdle
    /\ RtIdle
    /\ AuxIdle

\* a field with a fresh number outside every extension range
DeclareField(n) ==
    /\ gen_pc = "declare"
    /\ desc_fields # FixtureFields
    /\ Len(desc_fields) < MaxFields
    /\ n \notin Range(desc_fields)
    /\ n \notin Covered(desc_ranges)
    /\ desc_fields' = Append(desc_fields, n)
    /\ UNCHANGED <<desc_ranges, gen_pc, emitted, reqVars, rtVars, auxVars>>

\* an extension range [s, e) that overlaps no range and holds no field
DeclareRange(s, e) ==
    /\ gen_pc = "declare"
    /\ desc_fields # FixtureFields
    /\ Len(desc_ranges) < MaxRanges
    /\ s < e
    /\ (s .. (e - 1)) \cap (Covered(desc_ranges) \cup Range(desc_fields)) = {}
    /\ desc_ranges' = Append(desc_ranges, [start |-> s, end |-> e])
    /\ UNCHANGED <<desc_fields, gen_pc, emitted, reqVars, rtVars, auxVars>>

\* MessageGenerator::GenerateSource: the passes over the finished descriptor
GenerateSource ==
    /\ gen_pc = "declare"
    /\ emitted' = [serialize   |-> GenerateSerialize(desc_fields, desc_ranges),
                   size        |-> GenerateSerializedSize(desc_fields, desc_ranges),
                   description |-> GenerateDescription(desc_fields, desc_ranges),
                   isEqual     |-> GenerateIsEqual(desc_fields, desc_ranges),
                   hash        |-> GenerateHash(desc_fields, desc_ranges)]
    /\ gen_pc' = "done"
    /\ UNCHANGED <<desc_fields, desc_ranges, reqVars, rtVars, auxVars>>

EmitNext ==
    \/ \E n \in 1..MaxNum : DeclareField(n)
    \/ \E s \in 1..MaxNum, e \in 2..(MaxNum + 1) : DeclareRange(s, e)
    \/ GenerateSource

SpecEmit == EmitInit /\ [][EmitNext]_vars

----------------------------------------------------------------------------
(* Repeated scalar and enum fields on the wire: the serialization, size    *)
(* and parsing code of RepeatedPrimitiveFieldGenerator (part_001) and      *)
(* RepeatedEnumFieldGenerator (objc_enum_field.cc), run on one built       *)
(* instance of a class with one such field, byte by byte.                  *)

MaxPackLen == 2     \* elements of the repeated field of the built instance

VarintKinds == {"int32", "int64", "uint32", "uint64", "enum"}
ZigZagKinds == {"sint32", "sint64"}
Fixed32Kinds == {"fixed32", "sfixed32", "float"}
Fixed64Kinds == {"fixed64", "sfixed64", "double"}
ScalarKinds == (VarintKinds \ {"enum"}) \cup ZigZagKinds \cup Fixed32Kinds
                   \cup Fixed64Kinds \cup {"bool"}
ObjectKinds == {"string", "bytes", "group", "message"}
Kinds == ScalarKinds \cup {"enum"} \cup ObjectKinds

\* WireFormatLite::kFixed32Size and its siblings
kFixed32Size == 4
kFixed64Size == 8
kBoolSize == 1

\* FixedSize (part_001, lines 214-262)
FixedSize_FloatAsDouble(type) ==
    CASE type \in {"fixed32", "sfixed32"} -> kFixed32Size
      [] type \in {"fixed64", "sfixed64", "float", "double"} -> kFixed64Size
      [] type = "bool" -> kBoolSize
      [] OTHER -> 0 - 1
FixedSize(type) ==
    CASE type = "int32" -> 0 - 1
      [] type = "int64" -> 0 - 1
      [] type = "uint32" -> 0 - 1
      [] type = "uint64" -> 0 - 1
      [] type = "sint32" -> 0 - 1
      [] type = "sint64" -> 0 - 1
      [] type = "fixed32" -> kFixed32Size
      [] type = "fixed64" -> kFixed64Size
      [] type = "sfixed32" -> kFixed32Size
      [] type = "sfixed64" -> kFixed64Size
      [] type = "float" -> kFixed32Size
      [] type = "double" -> kFixed64Size
      [] type = "bool" -> kBoolSize
      [] type = "enum" -> 0 - 1
      [] type = "string" -> 0 - 1
      [] type = "bytes" -> 0 - 1
      [] type = "group" -> 0 - 1
      [] type = "message" -> 0 - 1

\* the values an element of the list can hold: one and two bytes as a varint
\* a string or a bytes value is the sequence of its bytes
PackValues(kind) ==
    CASE kind = "bool" -> {0, 1}
      [] kind = "enum" -> EnumValues
      [] kind \in {"string", "bytes"} -> {<<97>>, <<97, 98>>}
      [] OTHER -> {1, 300}

\* the runtime's coded streams work on bytes ---------------------------------

\* PBCodedOutputStream writeRawVarint32: seven bits a byte, low bits first
RECURSIVE writeRawVarint32(_)
writeRawVarint32(n) ==
    IF n < 128 THEN <<n>>
    ELSE <<(n % 128) + 128>> \o writeRawVarint32(n \div 128)

\* computeRawVarint32Size: the thresholds of the runtime
computeRawVarint32Size(n) ==
    IF n < 128 THEN 1
    ELSE IF n < 16384 THEN 2
    ELSE IF n < 2097152 THEN 3
    ELSE IF n < 268435456 THEN 4
    ELSE 5

\* writeRawLittleEndian32 / 64
RECURSIVE LittleEndian(_, _)
LittleEndian(x, n) ==
    IF n = 0 THEN <<>> ELSE <<x % 256>> \o LittleEndian(x \div 256, n - 1)

encodeZigZag(x) == 2 * x

\* write$capitalized_type$NoTag:
writeNoTag(kind, x) ==
    CASE kind \in VarintKinds -> writeRawVarint32(x)
      [] kind \in ZigZagKinds -> writeRawVarint32(encodeZigZag(x))
      [] kind \in Fixed32Kinds -> LittleEndian(x, 4)
      [] kind \in Fixed64Kinds -> LittleEndian(x, 8)
      [] kind = "bool" -> <<IF x # 0 THEN 1 ELSE 0>>
      [] kind \in {"string", "bytes"} -> writeRawVarint32(Len(x)) \o x

\* compute$capitalized_type$SizeNoTag
computeSizeNoTag(kind, x) ==
    CASE kind \in VarintKinds -> computeRawVarint32Size(x)
      [] kind \in ZigZagKinds -> computeRawVarint32Size(encodeZigZag(x))
      [] kind \in Fixed32Kinds -> 4
      [] kind \in Fixed64Kinds -> 8
      [] kind = "bool" -> 1
      [] kind \in {"string", "bytes"} -> computeRawVarint32Size(Len(x)) + Len(x)

\* WireFormatLite::WireType
WireTypeCode(wt) ==
    CASE wt = "varint" -> 0
      [] wt = "fixed64" -> 1
      [] wt = "len" -> 2
      [] wt = "startgroup" -> 3
      [] wt = "endgroup" -> 4
      [] wt = "fixed32" -> 5

WireTypes == {"varint", "fixed64", "len", "startgroup", "endgroup", "fixed32"}

\* WireFormat::WireTypeForField: a packed field is length-delimited
WireTypeForKind(kind, packed) ==
    IF packed THEN "len"
    ELSE CASE kind \in VarintKinds \cup ZigZagKinds \cup {"bool"} -> "varint"
           [] kind \in Fixed32Kinds -> "fixed32"
           [] kind \in Fixed64Kinds -> "fixed64"
           [] kind = "group" -> "startgroup"
           [] OTHER -> "len"

\* WireFormatLite::MakeTag(number, type): (number << 3) | type
kTagTypeBits == 3
MakeTag(number, wt) == number * (2 ^ kTagTypeBits) + WireTypeCode(wt)
GetTagFieldNumber(tag) == tag \div (2 ^ kTagTypeBits)
GetTagWireType(tag) == tag % (2 ^ kTagTypeBits)

\* the variables "tag" and "tag_size" of the field generators (part_001,
\* lines 301-303; objc_enum_field.cc, lines 50-52)
TagOf_NoShift(f) == f.number + WireTypeCode(WireTypeForKind(f.kind, f.packed))
TagOf(f) == MakeTag(f.number, WireTypeForKind(f.kind, f.packed))
TagSize(f) == computeRawVarint32Size(MakeTag(f.number, "varint"))

\* the label of the field's case in the switch of
\* mergeFromCodedInputStream (objc_message.cc, lines 901-906)
CaseLabel_NoShift(f) == f.number + WireTypeCode(WireTypeForKind(f.kind, f.packed))
CaseLabel(f) == MakeTag(f.number, WireTypeForKind(f.kind, f.packed))

Tok(what, bytes) == [what |-> what, bytes |-> bytes]

\* the bytes of a sequence of written items
RECURSIVE BytesOf(_)
BytesOf(out) ==
    IF out = <<>> THEN <<>> ELSE Head(out).bytes \o BytesOf(Tail(out))

\* the generated code ------------------------------------------------------

\* GenerateSerializationCodeSource (part_001, lines 714-743;
\* objc_enum_field.cc, lines 375-395): what the code writes for the field,
\* given the list and the field's memoized size
\* isObjectArray(descriptor): the list is an NSMutableArray of objects
isObjectArray(f) == f.kind \in ObjectKinds

GenerateSerializationCodeSource_EmptyBlob(f, list, memo) ==
    LET values == [i \in 1..Len(list) |->
                      Tok("value", writeNoTag(f.kind, list[i]))]
        prefix == <<Tok("tag", writeRawVarint32(TagOf(f))),
                    Tok("length", writeRawVarint32(memo))>>
    IN  IF f.packed THEN prefix \o values
        ELSE Flatten([i \in 1..Len(list) |->
                         <<Tok("tag", writeRawVarint32(TagOf(f))), values[i]>>])
GenerateSerializationCodeSource(f, list, memo) ==
    LET values == [i \in 1..Len(list) |->
                      Tok("value", writeNoTag(f.kind, list[i]))]
        prefix == <<Tok("tag", writeRawVarint32(TagOf(f))),
                    Tok("length", writeRawVarint32(memo))>>
    IN  IF isObjectArray(f)
        THEN Flatten([i \in 1..Len(list) |->
                         <<Tok("tag", writeRawVarint32(MakeTag(f.number, "len"))),
                           values[i]>>])
        ELSE IF f.packed
        THEN IF f.kind = "enum"
             THEN (IF Len(list) > 0 THEN prefix ELSE <<>>) \o values
             ELSE IF Len(list) > 0 THEN prefix \o values ELSE <<>>
        ELSE Flatten([i \in 1..Len(list) |->
                         <<Tok("tag", writeRawVarint32(TagOf(f))), values[i]>>])

\* GenerateSerializedSizeCodeSource (part_001, lines 745-785;
\* objc_enum_field.cc, lines 397-431): what the block adds to size_, and the
\* dataSize it leaves in $name$MemoizedSerializedSize of a packed field
dataSizeOf(f, list) ==
    IF f.kind # "enum" /\ FixedSize(f.kind) # 0 - 1
    THEN FixedSize(f.kind) * Len(list)
    ELSE SeqSum([i \in 1..Len(list) |-> computeSizeNoTag(f.kind, list[i])])

GenerateSerializedSizeCodeSource(f, list) ==
    LET dataSize == dataSizeOf(f, list)
        count == Len(list)
    IN  dataSize
        + (IF f.packed
           THEN IF count > 0
                THEN TagSize(f) + computeRawVarint32Size(dataSize)
                ELSE 0
           ELSE TagSize(f) * count)

\* - (int32_t) serializedSize (objc_message.cc, lines 543-573) of the class
\* with the one field and no unknown fields
PackedSerializedSize_NoMemo ==
    /\ pk_field # NoField /\ pk_pc = "idle"
    /\ LET size_ == GenerateSerializedSizeCodeSource(pk_field, pk_list)
       IN  /\ nameMemoizedSerializedSize' =
                  IF pk_field.packed THEN dataSizeOf(pk_field, pk_list)
                  ELSE nameMemoizedSerializedSize
           /\ pk_op' = [name |-> "serializedSize", ret |-> size_]
    /\ UNCHANGED <<memoizedSerializedSize, pk_field, pk_list, pk_out, pk_bytes,
                   pk_pos, currentLimit, pk_dec, pk_pc, emitVars, reqVars,
                   rtVars, genVars, eqVars>>
PackedSerializedSize ==
    /\ pk_field # NoField /\ pk_pc = "idle"
    /\ IF memoizedSerializedSize # 0 - 1
       THEN /\ pk_op' = [name |-> "serializedSize", ret |-> memoizedSerializedSize]
            /\ UNCHANGED <<memoizedSerializedSize, nameMemoizedSerializedSize>>
       ELSE LET size_ == GenerateSerializedSizeCodeSource(pk_field, pk_list)
            IN  /\ nameMemoizedSerializedSize' =
                       IF pk_field.packed THEN dataSizeOf(pk_field, pk_list)
                       ELSE nameMemoizedSerializedSize
                /\ memoizedSerializedSize' = size_
                /\ pk_op' = [name |-> "serializedSize", ret |-> size_]
    /\ UNCHANGED <<pk_field, pk_list, pk_out, pk_bytes, pk_pos, currentLimit,
                   pk_dec, pk_pc, emitVars, reqVars, rtVars, genVars, eqVars>>

\* - (void) writeToCodedOutputStream: (objc_message.cc, lines 512-540)
PackedWriteTo ==
    /\ pk_field # NoField /\ pk_pc = "idle"
    /\ pk_out' = GenerateSerializationCodeSource(pk_field, pk_list,
                                                 nameMemoizedSerializedSize)
    /\ pk_op' = [name |-> "writeTo", ret |-> 0]
    /\ UNCHANGED <<pk_field, pk_list, nameMemoizedSerializedSize,
                   memoizedSerializedSize, pk_bytes, pk_pos, currentLimit,
                   pk_dec, pk_pc, emitVars, reqVars, rtVars, genVars, eqVars>>

\* PBCodedInputStream -------------------------------------------------------

\* the end of what can be read: the buffer's end or the current limit
ReadEnd ==
    IF currentLimit = NoLimit \/ currentLimit > Len(pk_bytes)
    THEN Len(pk_bytes) ELSE currentLimit

\* readRawVarint32 at a position: the value and the position after it, or
\* ok = FALSE when the bytes run out first
RECURSIVE readRawVarint32(_, _, _)
readRawVarint32(bytes, pos, end) ==
    IF pos >= end THEN [ok |-> FALSE, val |-> 0, pos |-> pos]
    ELSE IF bytes[pos + 1] < 128
    THEN [ok |-> TRUE, val |-> bytes[pos + 1], pos |-> pos + 1]
    ELSE LET r == readRawVarint32(bytes, pos + 1, end)
         IN  [ok |-> r.ok, val |-> (bytes[pos + 1] - 128) + 128 * r.val,
              pos |-> r.pos]

\* readRawLittleEndian32 / 64
RECURSIVE LittleEndianValue(_)
LittleEndianValue(bs) ==
    IF bs = <<>> THEN 0 ELSE Head(bs) + 256 * LittleEndianValue(Tail(bs))

readRawLittleEndian(bytes, pos, end, n) ==
    IF pos + n > end THEN [ok |-> FALSE, val |-> 0, pos |-> pos]
    ELSE [ok |-> TRUE,
          val |-> LittleEndianValue(SubSeq(bytes, pos + 1, pos + n)),
          pos |-> pos + n]

decodeZigZag(n) == n \div 2

\* read$capitalized_type$
readValue(kind, bytes, pos, end) ==
    CASE kind \in VarintKinds -> readRawVarint32(bytes, pos, end)
      [] kind \in ZigZagKinds ->
            LET r == readRawVarint32(bytes, pos, end)
            IN  [r EXCEPT !.val = decodeZigZag(r.val)]
      [] kind \in Fixed32Kinds -> readRawLittleEndian(bytes, pos, end, 4)
      [] kind \in Fixed64Kinds -> readRawLittleEndian(bytes, pos, end, 8)
      [] kind = "bool" -> readRawVarint32(bytes, pos, end)
      [] kind \in {"string", "bytes"} ->
            LET n == readRawVarint32(bytes, pos, end)
            IN  IF ~n.ok \/ n.pos + n.val > end
                THEN [ok |-> FALSE, val |-> <<>>, pos |-> pos]
                ELSE [ok |-> TRUE, val |-> SubSeq(bytes, n.pos + 1, n.pos + n.val),
                      pos |-> n.pos + n.val]

\* bytesUntilLimit
bytesUntilLimit == IF currentLimit = NoLimit THEN 0 - 1 ELSE currentLimit - pk_pos

\* add$capitalized_name$: on the builder's list (part_001, lines 646-652;
\* objc_enum_field.cc, lines 316-322); an enum value is added only when valid
\* (objc_enum_field.cc, lines 361-366)
AddDecoded(f, d, x) ==
    IF f.kind = "enum" /\ ~IsValidValue(x) THEN d
    ELSE [nil |-> FALSE, list |-> Append(d.list, x)]

PkFrame == <<pk_field, pk_list, nameMemoizedSerializedSize,
             memoizedSerializedSize, pk_op, pk_out, emitVars, reqVars, rtVars,
             genVars, eqVars>>

\* the bytes the instance has last written are handed to
\* mergeFromCodedInputStream of a new builder
PackedDecodeBegin ==
    /\ pk_pc = "idle" /\ pk_op.name = "writeTo"
    /\ pk_bytes' = BytesOf(pk_out)
    /\ pk_pos' = 0
    /\ currentLimit' = NoLimit
    /\ pk_dec' = NoList
    /\ pk_pc' = "tag"
    /\ UNCHANGED PkFrame

\* one turn of the loop of mergeFromCodedInputStream (objc_message.cc, lines
\* 882-912) up to the field's parsing code: readTag, then case 0, the case
\* of the field's tag (part_001, lines 682-712; objc_enum_field.cc, lines
\* 349-373) or default
PackedReadTag ==
    /\ pk_pc = "tag"
    /\ LET r == readRawVarint32(pk_bytes, pk_pos, ReadEnd)
       IN  IF pk_pos = ReadEnd
           THEN pk_pc' = "done" /\ UNCHANGED <<pk_pos, currentLimit, pk_dec>>
           ELSE IF ~r.ok \/ r.val = 0
           THEN pk_pc' = "error" /\ UNCHANGED <<pk_pos, currentLimit, pk_dec>>
           ELSE IF r.val # TagOf(pk_field)
           THEN pk_pc' = "unknown" /\ pk_pos' = r.pos
                /\ UNCHANGED <<currentLimit, pk_dec>>
           ELSE IF pk_field.packed
           THEN LET length == readRawVarint32(pk_bytes, r.pos, ReadEnd)
                IN  IF ~length.ok
                    THEN pk_pc' = "error"
                         /\ UNCHANGED <<pk_pos, currentLimit, pk_dec>>
                    ELSE /\ pk_pos' = length.pos
                         /\ currentLimit' = length.pos + length.val
                         /\ pk_dec' = IF pk_field.kind = "enum" THEN pk_dec
                                      ELSE [pk_dec EXCEPT !.nil = FALSE]
                         /\ pk_pc' = "run"
           ELSE LET x == readValue(pk_field.kind, pk_bytes, r.pos, ReadEnd)
                IN  IF ~x.ok
                    THEN pk_pc' = "error"
                         /\ UNCHANGED <<pk_pos, currentLimit, pk_dec>>
                    ELSE /\ pk_pos' = x.pos
                         /\ pk_dec' = AddDecoded(pk_field, pk_dec, x.val)
                         /\ pk_pc' = "tag"
                         /\ UNCHANGED currentLimit
    /\ UNCHANGED <<pk_bytes, PkFrame>>

\* while (input.bytesUntilLimit > 0) { add: read } and, after the loop,
\* [input popLimit:limit]; the message is decoded with no limit around it,
\* so the limit that pushLimit returned is "none"
PackedRun ==
    /\ pk_pc = "run"
    /\ IF bytesUntilLimit > 0
       THEN LET x == readValue(pk_field.kind, pk_bytes, pk_pos, ReadEnd)
            IN  IF ~x.ok
                THEN pk_pc' = "error" /\ UNCHANGED <<pk_pos, currentLimit, pk_dec>>
                ELSE /\ pk_pos' = x.pos
                     /\ pk_dec' = AddDecoded(pk_field, pk_dec, x.val)
                     /\ UNCHANGED <<pk_pc, currentLimit>>
       ELSE /\ currentLimit' = NoLimit
            /\ pk_pc' = "tag"
            /\ UNCHANGED <<pk_pos, pk_dec>>
    /\ UNCHANGED <<pk_bytes, PkFrame>>

\* the classes generated for the fields: every scalar kind and the enum,
\* packed or not, with a built instance holding up to MaxPackLen values
PackedFields ==
    [kind : ScalarKinds \cup {"enum"}, packed : BOOLEAN, number : {1, 16}]

PackedInit ==
    /\ pk_field \in PackedFields
    /\ pk_list \in UNION {[1..n -> PackValues(pk_field.kind)] : n \in 0..MaxPackLen}
    /\ nameMemoizedSerializedSize = 0
    /\ memoizedSerializedSize = 0 - 1
    /\ pk_op = [name |-> "none", ret |-> 0]
    /\ pk_out = <<>>
    /\ pk_bytes = <<>>
    /\ pk_pos = 0
    /\ currentLimit = NoLimit
    /\ pk_dec = NoList
    /\ pk_pc = "idle"
    /\ ReqIdle /\ RtIdle /\ GenIdle /\ EqIdle
    /\ desc_fields = <<>> /\ desc_ranges = <<>>
    /\ gen_pc = "declare" /\ emitted = NoEmission

PackedNext ==
    \/ PackedSerializedSize
    \/ PackedWriteTo
    \/ PackedDecodeBegin
    \/ PackedReadTag
    \/ PackedRun

SpecPacked == PackedInit /\ [][PackedNext]_vars

\* the classes RepeatedPrimitiveFieldGenerator generates for a repeated
\* string or bytes field, with the packed option set or not
ObjectFields == [kind : {"string", "bytes"}, packed : BOOLEAN, number : {1, 16}]

ObjectInit ==
    /\ pk_field \in ObjectFields
    /\ pk_list \in UNION {[1..n -> PackValues(pk_field.kind)] : n \in 0..MaxPackLen}
    /\ nameMemoizedSerializedSize = 0
    /\ memoizedSerializedSize = 0 - 1
    /\ pk_op = [name |-> "none", ret |-> 0]
    /\ pk_out = <<>>
    /\ pk_bytes = <<>>
    /\ pk_pos = 0
    /\ currentLimit = NoLimit
    /\ pk_dec = NoList
    /\ pk_pc = "idle"
    /\ ReqIdle /\ RtIdle /\ GenIdle /\ EqIdle
    /\ desc_fields = <<>> /\ desc_ranges = <<>>
    /\ gen_pc = "declare" /\ emitted = NoEmission

SpecObject == ObjectInit /\ [][PackedNext]_vars

----------------------------------------------------------------------------
(* main.cc: ObjectiveCGenerator::Generate, statement by statement.         *)

MaxOptions == 3     \* options of one request

OptionKeys == {"output_list_file", "split_headers", "other_option"}
OptionValues == {"list.txt"}

\* the comparison of line 80
IsRecognized_Any(key) == TRUE
IsRecognized(key) == key = "output_list_file"

\* the headers Generate opens (lines 94-133): the aggregate header, the enums
\* header and the headers of the classes, or the one header
HeaderArtifacts_Single(divide) == <<"header">>
HeaderArtifacts(divide) ==
    IF divide THEN <<"aggregate header", "enums header", "class headers">>
    ELSE <<"header">>

GenOthers == <<emitVars, reqVars, rtVars, pkVars, eqVars>>

\* one turn of the loop over the options (lines 79-86)
OptionLoop ==
    /\ main_pc = "options"
    /\ IF opt_i >= Len(options)
       THEN /\ main_pc' = "headers"
            /\ UNCHANGED <<opt_i, output_list_file, error, returned>>
       ELSE IF IsRecognized(options[opt_i + 1][1])
       THEN /\ output_list_file' = options[opt_i + 1][2]
            /\ opt_i' = opt_i + 1
            /\ UNCHANGED <<error, returned, main_pc>>
       ELSE /\ error' = [msg |-> "Unknown generator option: ",
                         key |-> options[opt_i + 1][1]]
            /\ returned' = "false"
            /\ main_pc' = "done"
            /\ UNCHANGED <<opt_i, output_list_file>>
    /\ UNCHANGED <<options, shouldDivideHeaders, opened, GenOthers>>

\* lines 88-133: the header or headers
OpenHeaders ==
    /\ main_pc = "headers"
    /\ opened' = opened \o HeaderArtifacts(shouldDivideHeaders)
    /\ main_pc' = "source"
    /\ UNCHANGED <<options, shouldDivideHeaders, opt_i, output_list_file, error,
                   returned, GenOthers>>

\* lines 135-143: the m file, and return true
OpenSource ==
    /\ main_pc = "source"
    /\ opened' = Append(opened, "source")
    /\ returned' = "true"
    /\ main_pc' = "done"
    /\ UNCHANGED <<options, shouldDivideHeaders, opt_i, output_list_file, error,
                   GenOthers>>

\* a request: its options in the order given, and the environment
GenerateInit ==
    /\ options \in UNION {[1..n -> OptionKeys \X OptionValues] : n \in 0..MaxOptions}
    /\ shouldDivideHeaders \in BOOLEAN
    /\ opt_i = 0
    /\ output_list_file = ""
    /\ error = NoError
    /\ opened = <<>>
    /\ returned = "none"
    /\ main_pc = "options"
    /\ ReqIdle /\ RtIdle /\ PkIdle /\ EqIdle
    /\ desc_fields = <<>> /\ desc_ranges = <<>>
    /\ gen_pc = "declare" /\ emitted = NoEmission

GenerateNext ==
    \/ OptionLoop
    \/ OpenHeaders
    \/ OpenSource

SpecGenerate == GenerateInit /\ [][GenerateNext]_vars

----------------------------------------------------------------------------
(* C1, C2: the order of the emitted blocks                                 *)

IsFieldBlock(b) == b.kind = "field"
IsRangeBlock(b) == b.kind = "range"

\* C1: the serialize pass emits every field and every extension range exactly
\* once, in ascending order of field number / range start (the merge of the two
\* sorted lists); the fixture {1,5,9} with [2,4), [6,8) is emitted as
\* field1, range[2,4), field5, range[6,8), field9.
C1_SerializeMergeOrder ==
    gen_pc = "done" =>
        LET out == emitted.serialize
        IN  /\ Len(out) = Len(desc_fields) + Len(desc_ranges)
            /\ \A n \in Range(desc_fields) :
                   Cardinality({k \in DOMAIN out : out[k] = FieldBlock(n)}) = 1
            /\ \A r \in Range(desc_ranges) :
                   Cardinality({k \in DOMAIN out : out[k] = RangeBlock(r)}) = 1
            /\ \A k \in 1..(Len(out) - 1) : out[k].key < out[k + 1].key
            /\ (desc_fields = FixtureFields /\ desc_ranges = FixtureRanges) =>
                   out = << FieldBlock(1), RangeBlock([start |-> 2, end |-> 4]),
                            FieldBlock(5), RangeBlock([start |-> 6, end |-> 8]),
                            FieldBlock(9) >>

\* a generated message whose fields and ranges were declared out of order and
\* interleave: a range lies between two fields
C1_Witness ==
    /\ gen_pc = "done"
    /\ Len(desc_fields) >= 2 /\ Len(desc_ranges) >= 1
    /\ desc_fields[1] > desc_fields[2]
    /\ \E k \in 2..(Len(emitted.serialize) - 1) :
           /\ IsRangeBlock(emitted.serialize[k])
           /\ IsFieldBlock(emitted.serialize[k - 1])
           /\ IsFieldBlock(emitted.serialize[k + 1])

\* C2 as stated: the size-accounting sequence is, position by position, the
\* serialize sequence (and so are isEqual's and writeDescriptionTo's).
C2_AllFourPassesSameSequence ==
    gen_pc = "done" =>
        /\ emitted.size = emitted.serialize
        /\ emitted.isEqual = emitted.serialize
        /\ emitted.description = emitted.serialize

\* the field blocks of a sequence, in order
FieldBlocksOf(out) == SelectSeq(out, IsFieldBlock)

\* C2 amended: serialize, isEqual, writeDescriptionTo and hash emit the same
\* merged sequence; size accounting is not merged: it emits the field blocks
\* of that sequence in the same (ascending) order, followed by one block for
\* all extensions when the message has an extension range, so it is the
\* serialize sequence exactly when the message has no extension range.
C2_MergedPassesAgree ==
    gen_pc = "done" =>
        /\ emitted.isEqual = emitted.serialize
        /\ emitted.description = emitted.serialize
        /\ emitted.hash = emitted.serialize
        /\ emitted.size = FieldBlocksOf(emitted.serialize)
                          \o (IF desc_ranges # <<>> THEN <<ExtensionsBlock>> ELSE <<>>)
        /\ (desc_ranges = <<>>) <=> (emitted.size = emitted.serialize)

\* a generated message with a range before a field, declared out of order
C2_Witness ==
    /\ gen_pc = "done"
    /\ Len(emitted.serialize) >= 3
    /\ IsRangeBlock(emitted.serialize[1])
    /\ \E k \in DOMAIN emitted.serialize : IsFieldBlock(emitted.serialize[k])
    /\ Len(desc_fields) >= 2 /\ desc_fields[1] > desc_fields[2]

----------------------------------------------------------------------------
(* C3, C4, C5: the required-field analysis                                 *)

\* the message types of the fields of type t
Callees(sch, t) ==
    {sch[t].fields[k].msg : k \in DOMAIN sch[t].fields} \ {"none"}

\* the types reachable from t through message-typed fields, t included
RECURSIVE ReachFrom(_, _)
ReachFrom(sch, S) ==
    LET N == S \cup UNION {Callees(sch, u) : u \in S}
    IN  IF N = S THEN S ELSE ReachFrom(sch, N)

Reachable(sch, t) == ReachFrom(sch, {t})

\* a type with an extension range, a field labelled required, or a field
\* whose trailing comment holds the marker
DirectlyRequired(sch, t) ==
    \/ sch[t].ext
    \/ \E k \in DOMAIN sch[t].fields :
           sch[t].fields[k].label = "required" \/ sch[t].fields[k].tag

\* statements a run over the types reachable from t can execute at most
StepBound(sch, t) ==
    LET ts == <<"A", "B", "C">>
        R  == Reachable(sch, t)
    IN  1 + SeqSum([k \in 1..Len(ts) |->
                      IF ts[k] \in R THEN 2 + 3 * Len(sch[ts[k]].fields) ELSE 0])

\* C3: HasRequiredFields terminates on every type graph, cyclic ones included:
\* a run inserts each type into already_seen at most once, at most as many
\* calls get past the already_seen check as there are types reachable from the
\* start type, the statements executed stay within a bound that depends on the
\* graph alone, and a run that has not returned can always take a step.
C3_TerminatesAndInsertsOnce ==
    req_pc = "running" =>
        /\ \A t \in Types : req_inserts[t] <= 1
        /\ req_past <= Cardinality(Reachable(schema, req_start))
        /\ req_steps <= StepBound(schema, req_start)
        /\ ENABLED ReqStep

\* a run on a mutually recursive pair of types has just been answered by the
\* already_seen check for a type that is still in progress on the stack
C3_Witness ==
    /\ req_pc = "running" /\ req_stack # <<>> /\ req_ret = "false"
    /\ Top.at = "loop" /\ Top.i < Len(schema[Top.type].fields)
    /\ LET callee == schema[Top.type].fields[Top.i + 1].msg
       IN  /\ callee # "none" /\ callee # Top.type
           /\ \E k \in DOMAIN req_stack : req_stack[k].type = callee
           /\ req_hits >= 1

\* C4: a top-level call on T (fresh already_seen) returns true exactly when a
\* type reachable from T, T included, has an extension range, a required field
\* or a marked field.
C4_TrueIffReachableRequirement ==
    (req_pc = "idle") =>
        ((req_result = "true") <=>
            \E u \in Reachable(schema, req_start) : DirectlyRequired(schema, u))

\* the call returned true although the already_seen check answered false for
\* a type in the course of the run, and the start type has no requirement of
\* its own
C4_Witness ==
    /\ req_pc = "idle" /\ req_result = "true" /\ req_hits >= 1
    /\ ~DirectlyRequired(schema, req_start)

\* C5: a later top-level call on the type of the first top-level call returns
\* what the first returned, whatever was analysed in between.
C5_SameAnswerEveryCall ==
    (req_pc = "idle" /\ req_prev.type = req_start) =>
        req_result = req_prev.result

\* the type of the first call was analysed again after another type, and the
\* answer is true
C5_Witness ==
    /\ req_pc = "idle" /\ req_prev.type = req_start /\ req_prev.other
    /\ req_result = "true"

----------------------------------------------------------------------------
(* C6, C7, C8: isInitialized and the builder                               *)

\* HasRequiredFields(t) in the words of the claims: some type reachable
\* from t has an extension range, a required field or a marked field
TransitivelyRequired(sch, t) ==
    \E u \in Reachable(sch, t) : DirectlyRequired(sch, u)

\* the three reasons for which an instance v is not initialized; a singular
\* field is present when its has flag is set, a repeated field when
\* PresentList says so of its list
NotInitializedFor(sch, v, PresentList(_)) ==
    LET fs == sch[v.type].fields
    IN  \/ \E k \in DOMAIN fs :
              /\ fs[k].label = "required" \/ fs[k].tag
              /\ IF fs[k].label = "repeated" THEN ~PresentList(v.f[k])
                 ELSE ~v.f[k].has
        \/ \E k \in DOMAIN fs :
              /\ fs[k].msg # "none" /\ TransitivelyRequired(sch, fs[k].msg)
              /\ IF fs[k].label = "repeated"
                 THEN \E e \in DOMAIN v.f[k].list : ~isInitialized(sch, v.f[k].list[e])
                 ELSE /\ v.f[k].has \/ fs[k].label = "required"
                      /\ ~isInitialized(sch, MessageOf(sch, v, k))
        \/ sch[v.type].ext /\ ~v.ext_ok

\* C6: the generated isInitialized says NO exactly when (a) a required or
\* marked field is not present (a repeated field with no element is not
\* present), or (b) a message-typed field of a transitively required type is
\* present or required and its value says NO, or an element of a repeated one
\* says NO, or (c) the type has extension ranges and extensionsAreInitialized
\* says NO.
C6_NotInitializedExactlyWhen ==
    \A i \in DOMAIN heap :
        isInitialized(schema, heap[i])
            <=> ~NotInitializedFor(schema, heap[i], LAMBDA fv : Len(fv.list) > 0)

\* C7: an instance that build or buildPartial has returned is not the
\* builder's builder_result, and no step changes it.
C7_HandedOutNeverChanges ==
    /\ [](builder_result \notin handed)
    /\ [][\A i \in handed : heap'[i] = heap[i]]_vars

\* a member was called on the builder after it had handed out its instance
C7_Witness ==
    /\ handed # {} /\ builder_type # "none" /\ builder_result = 0
    /\ last_op.name = "call"

\* C8: build on a working instance that is not initialized throws, returns
\* no instance and leaves builder_result and the instance as they were;
\* buildPartial on such a state returns the working instance.
C8_BuildValidatesFirst ==
    [][(builder_result # 0 /\ ~isInitialized(schema, heap[builder_result])) =>
          /\ last_op'.name = "build" =>
                /\ last_op'.ret = -1
                /\ builder_result' = builder_result
                /\ heap' = heap /\ handed' = handed
          /\ last_op'.name = "buildPartial" =>
                /\ last_op'.ret = builder_result
                /\ builder_result \in handed'
                /\ heap' = heap]_vars

\* build has thrown on a working instance with an unset required field, and
\* the builder still holds the instance
C8_Witness ==
    /\ last_op = [name |-> "build", ret |-> -1]
    /\ builder_result # 0
    /\ ~isInitialized(schema, heap[builder_result])

----------------------------------------------------------------------------
(* C9, C10: enum values the enum does not have                             *)

\* the next field of the stream is the enum field of the class, with the
\* wire type the generated case label expects
AtEnumField ==
    /\ parsing /\ input # <<>> /\ builder_result # 0
    /\ schema[builder_type].fields[Head(input).num].enum
    /\ Head(input).wt = WireTypeForField(schema[builder_type].fields[Head(input).num])

\* C9: decoding the enum field goes on to the next field of the stream
\* whatever the values are; every value the enum does not have is appended
\* to the unknown fields as a varint field of the same number, in order, and
\* leaves the field as it was; a valid value is stored (singular) or
\* appended (repeated).
C9_InvalidEnumToUnknownFields ==
    [][AtEnumField =>
          LET e == Head(input)
              k == e.num
              old == heap[builder_result].f[k]
              new == heap'[builder_result].f[k]
              valid == SelectSeq(e.vals, IsValidValue)
              invalid == SelectSeq(e.vals, LAMBDA x : ~IsValidValue(x))
          IN  /\ parsing' /\ input' = Tail(input)
              /\ unknownFields' = unknownFields \o
                     [i \in 1..Len(invalid) |->
                         [num |-> k, wt |-> "varint", vals |-> <<invalid[i]>>]]
              /\ valid = <<>> => new = old
              /\ valid # <<>> =>
                    IF schema[builder_type].fields[k].label = "repeated"
                    THEN new = [old EXCEPT !.nil = FALSE, !.list = @ \o valid]
                    ELSE new = [old EXCEPT !.has = TRUE, !.val = valid[Len(valid)]]]_vars

\* a packed run with a valid and an invalid value has been decoded: the list
\* holds the valid one, the unknown fields the other
C9_Witness ==
    /\ parsing /\ builder_result # 0
    /\ \A i \in DOMAIN wire_in :
           wire_in[i].wt = WireTypeForField(schema["A"].fields[wire_in[i].num])
    /\ \E k \in DOMAIN schema["A"].fields :
           /\ schema["A"].fields[k].enum /\ schema["A"].fields[k].packed
           /\ heap[builder_result].f[k].list = <<1>>
           /\ unknownFields = <<[num |-> k, wt |-> "varint", vals |-> <<2>>]>>

\* C10: a stream whose enum field carries a value the enum does not have,
\* decoded into a new builder and written out again, comes out as it went in.
C10_ReencodeReproducesBytes ==
    (/\ last_op.name = "writeTo"
     /\ \E i \in DOMAIN wire_in :
           /\ schema["A"].fields[wire_in[i].num].enum
           /\ wire_in[i].wt = WireTypeForField(schema["A"].fields[wire_in[i].num])
           /\ \E j \in DOMAIN wire_in[i].vals : ~IsValidValue(wire_in[i].vals[j]))
        => output = wire_in

----------------------------------------------------------------------------
(* C11 - C13: packed repeated fields on the wire                           *)

PackedWritten == pk_op.name = "writeTo" \/ pk_pc # "idle" \/ pk_out # <<>>

\* the items of one kind among those written, in order
ItemsOf(out, what) == SelectSeq(out, LAMBDA o : o.what = what)

\* C11: for a packed repeated scalar or enum field of a built instance, in
\* any order of the calls of serializedSize and writeToCodedOutputStream, the
\* length prefix written after the tag equals the number of bytes of the raw
\* values written after it.
C11_PrefixEqualsPayloadLength ==
    (pk_field.packed /\ PackedWritten) =>
        \A i \in DOMAIN pk_out :
            pk_out[i].what = "length" =>
                readRawVarint32(pk_out[i].bytes, 0, Len(pk_out[i].bytes)).val
                    = Len(BytesOf(ItemsOf(pk_out, "value")))

PackedDecodeOver == pk_pc \in {"done", "unknown", "error"}

\* C12: for a packed repeated scalar or enum field and every sequence of valid
\* values, the empty one included, decoding the bytes the encoding produced
\* ends at the end of the input with the same values in the same order and
\* with the read limit that was in force before the run.
C12_DecodeOfEncodeIsIdentity ==
    (pk_field.packed /\ PackedDecodeOver) =>
        /\ pk_pc = "done"
        /\ pk_dec.list = pk_list
        /\ currentLimit = NoLimit

\* C13: a packed repeated field with no element writes nothing and adds
\* nothing to the serialized size; with one or more elements it writes one
\* tag and one length prefix, followed by the values without tags.
C13_EmptyPackedWritesNothing ==
    pk_field.packed =>
        /\ (PackedWritten /\ pk_list = <<>>) => pk_out = <<>>
        /\ (pk_op.name = "serializedSize" /\ pk_list = <<>>) => pk_op.ret = 0
        /\ (PackedWritten /\ pk_list # <<>>) =>
               /\ Len(pk_out) = Len(pk_list) + 2
               /\ pk_out[1] = Tok("tag", writeRawVarint32(TagOf(pk_field)))
               /\ pk_out[2].what = "length"
               /\ \A i \in DOMAIN pk_list :
                      pk_out[i + 2] = Tok("value", writeNoTag(pk_field.kind, pk_list[i]))
        /\ (pk_op.name = "serializedSize" /\ pk_list # <<>>) =>
               pk_op.ret = TagSize(pk_field)
                           + computeRawVarint32Size(dataSizeOf(pk_field, pk_list))
                           + dataSizeOf(pk_field, pk_list)

C13_Witness ==
    /\ pk_field.packed /\ pk_list = <<>>
    /\ memoizedSerializedSize = 0
    /\ pk_op.name = "writeTo" /\ pk_out = <<>>

----------------------------------------------------------------------------
(* C14: the decode loop and the tags it does not know                      *)

InLoop == parsing /\ builder_result # 0
AtUnknownTag ==
    InLoop /\ input # <<>> /\ ~IsCaseLabel(schema, builder_type, Head(input))
LoopReturned ==
    /\ ~parsing'
    /\ heap'[builder_result].unknownFields = unknownFields

\* C14 as stated: in the decode loop a tag that matches no declared field,
\* like an end-group marker, ends the loop for that message with the
\* remaining data routed to the unknown-field store, and a zero tag ends the
\* loop as end of input; in every terminating case the accumulated unknown
\* fields are stored on the builder before returning.
C14_UnknownTagTerminates ==
    [][/\ AtUnknownTag =>
            /\ ~parsing'
            /\ heap'[builder_result].unknownFields = unknownFields \o input
       /\ (InLoop /\ input = <<>>) => LoopReturned]_vars

\* C14 as amended: a tag that matches no declared field is handed to
\* parseUnknownField; unless that refuses it (an end-group marker) the field
\* goes to the unknown-field store and the loop goes on with the next tag.
\* An end-group marker ends the loop with the rest of the stream unread, a
\* zero tag ends it as end of input, and in both cases the accumulated unknown
\* fields are stored on the builder before returning.
C14_UnknownTagsGoOn ==
    [][/\ (AtUnknownTag /\ Head(input).wt # "endgroup") =>
            /\ parsing'
            /\ unknownFields' = Append(unknownFields, Head(input))
            /\ input' = Tail(input)
            /\ heap' = heap
       /\ (AtUnknownTag /\ Head(input).wt = "endgroup") =>
            /\ LoopReturned
            /\ input' = input
            /\ heap' = [heap EXCEPT ![builder_result].unknownFields = unknownFields]
       /\ (InLoop /\ input = <<>>) => LoopReturned
       /\ (InLoop /\ ~parsing') => LoopReturned]_vars

\* a stream with an unknown field before a declared one has been decoded to
\* its end: the unknown field went to the store, the loop went on and set the
\* declared field, and the store is on the builder
C14_Witness ==
    /\ ~parsing /\ builder_result # 0
    /\ Len(wire_in) = 2 /\ input = <<>>
    /\ ~IsCaseLabel(schema, "A", wire_in[1]) /\ wire_in[1].wt # "endgroup"
    /\ IsCaseLabel(schema, "A", wire_in[2]) /\ wire_in[2].num = 1
    /\ heap[builder_result].f[1].has
    /\ heap[builder_result].unknownFields = <<wire_in[1]>>

----------------------------------------------------------------------------
(* C15, C16: mergeFrom: field by field                                     *)

\* the step is a mergeFrom: of the builder on instance 2
MergeStep == builder_result = 1 /\ builder_result' = 1 /\ last_op'.name = "call"

\* the sub-fields of the value of a singular message field of class B
SubFieldsOf(val) == IF val = <<>> THEN AllocInit(schema, "B").f ELSE val[1].f

\* C15: merging into a singular message field is not a plain overwrite: when
\* the builder's field is present, the result is the field-wise merge of the
\* incoming value into the existing one (sub-fields the incoming value does
\* not set are kept); when it is absent, the incoming value is assigned as it
\* is; in both cases the field is present afterwards.
C15_SingularMessageMerge ==
    [][(MergeStep /\ schema["A"].fields[1].label = "optional") =>
          LET e == heap[1].f[1]
              o == heap[2].f[1]
              r == heap'[1].f[1]
          IN  IF ~o.has THEN r = e
              ELSE /\ r.has
                   /\ IF ~e.has THEN r.val = o.val
                      ELSE \A j \in 1..2 :
                              LET E == SubFieldsOf(e.val)[j]
                                  O == SubFieldsOf(o.val)[j]
                                  R == SubFieldsOf(r.val)[j]
                              IN  /\ R.has = (E.has \/ O.has)
                                  /\ R.val = IF O.has THEN O.val ELSE E.val]_vars

\* a merge has happened that kept sub-field 1 of the builder's value and
\* took sub-field 2 from the other instance's value
C15_Witness ==
    /\ builder_result = 1 /\ last_op.name = "call"
    /\ schema["A"].fields[1].label = "optional"
    /\ heap[2].f[1].has /\ heap[1].f[1].has
    /\ ~SubFieldsOf(heap[2].f[1].val)[1].has
    /\ SubFieldsOf(heap[2].f[1].val)[2] = [has |-> TRUE, val |-> 2, nil |-> TRUE, list |-> <<>>]
    /\ SubFieldsOf(heap[1].f[1].val)[1] = [has |-> TRUE, val |-> 1, nil |-> TRUE, list |-> <<>>]
    /\ SubFieldsOf(heap[1].f[1].val)[2] = SubFieldsOf(heap[2].f[1].val)[2]

\* C16: merging a repeated field from another message replaces: when the
\* other list is not empty the builder's list becomes a copy of exactly that
\* list (what the builder held is discarded, nothing is appended or merged
\* element by element); when the other list is empty or absent the builder's
\* list is left as it is.
C16_RepeatedMergeReplaces ==
    [][MergeStep =>
          \A k \in 1..2 :
              schema["A"].fields[k].label = "repeated" =>
                  LET e == heap[1].f[k]
                      o == heap[2].f[k]
                      r == heap'[1].f[k]
                  IN  IF Len(o.list) > 0
                      THEN r.list = o.list /\ ~r.nil
                      ELSE r = e]_vars

\* a builder whose list was not empty has merged an instance with another
\* non-empty list: it holds the other list
C16_Witness ==
    /\ builder_result = 1 /\ last_op.name = "call"
    /\ \E k \in 1..2 :
          /\ schema["A"].fields[k].label = "repeated"
          /\ IsMessageField(schema["A"].fields[k])
          /\ Len(heap[2].f[k].list) > 0
          /\ heap[1].f[k].list = heap[2].f[k].list

----------------------------------------------------------------------------
(* C17, C18: the options of the generator                                  *)

\* the positions of the keys other than the one Generate knows
UnknownAt == {i \in DOMAIN options : options[i][1] # "output_list_file"}
FirstUnknown == CHOOSE i \in UnknownAt : \A j \in UnknownAt : i <= j

\* C17: an unknown generator option is a hard error: if any option key of the
\* request is not recognized, whatever its position among the others, Generate
\* sets an error naming an unrecognized key (the first one) and returns
\* failure, and no output artifact is opened before or after.
C17_UnknownOptionIsHardError ==
    UnknownAt # {} =>
        /\ opened = <<>>
        /\ returned # "true"
        /\ main_pc = "done" =>
               /\ returned = "false"
               /\ error = [msg |-> "Unknown generator option: ",
                           key |-> options[FirstUnknown][1]]

\* Generate has returned on a request with an unknown key between two
\* recognized ones
C17_Witness ==
    /\ main_pc = "done" /\ returned = "false"
    /\ Len(options) = 3
    /\ UnknownAt = {2}
    /\ error.key = "other_option"
    /\ output_list_file = "list.txt"

OnlySpecKeys ==
    \A i \in DOMAIN options : options[i][1] \in {"split_headers", "output_list_file"}
HasSplitHeaders == \E i \in DOMAIN options : options[i][1] = "split_headers"
SplitLayout == <<"aggregate header", "enums header", "class headers", "source">>
SingleLayout == <<"header", "source">>

\* C18 as stated: the generator recognizes the keys split_headers and
\* output_list_file: a request whose options are only these keys proceeds to
\* generation, split_headers selects the aggregate + enums + per-class
\* header layout instead of the single header, and the source artifact is
\* produced in both layouts.
C18_SplitHeadersIsAnOption ==
    (main_pc = "done" /\ OnlySpecKeys) =>
        /\ returned = "true"
        /\ opened = IF HasSplitHeaders THEN SplitLayout ELSE SingleLayout

\* C18 as amended: the generator recognizes the key output_list_file only: a
\* request whose options are only this key proceeds to generation, and a
\* request with the key split_headers fails as one with an unknown option.
\* The environment variable PROTOC_GEN_OBJC_DIVIDE_HEADERS selects the
\* aggregate + enums + per-class header layout instead of the single header;
\* the source artifact is produced last in both layouts.
C18_EnvironmentSelectsLayout ==
    main_pc = "done" =>
        /\ (\A i \in DOMAIN options : options[i][1] = "output_list_file") =>
               /\ returned = "true"
               /\ opened = IF shouldDivideHeaders THEN SplitLayout ELSE SingleLayout
        /\ HasSplitHeaders => returned = "false" /\ opened = <<>>

C18_Witness ==
    /\ main_pc = "done" /\ returned = "true"
    /\ shouldDivideHeaders
    /\ Len(options) = 2
    /\ opened = SplitLayout

----------------------------------------------------------------------------
(* C19, C20: fixed widths and tags                                         *)

\* C19: FixedSize is 4 for fixed32, sfixed32 and float, 8 for fixed64,
\* sfixed64 and double, 1 for bool and -1 for every other kind; for a
\* repeated field of a fixed-width kind the payload size accounted by
\* serializedSize is the width times the number of elements, which is the
\* number of bytes of the values written.
C19_FixedSizeTimesCount ==
    /\ \A type \in Kinds :
           FixedSize(type) = (CASE type \in {"fixed32", "sfixed32", "float"} -> 4
                                [] type \in {"fixed64", "sfixed64", "double"} -> 8
                                [] type = "bool" -> 1
                                [] OTHER -> 0 - 1)
    /\ \A w \in {1, 4, 8} :
           (/\ pk_field # NoField
            /\ pk_field.kind \in (CASE w = 4 -> {"fixed32", "sfixed32", "float"}
                                    [] w = 8 -> {"fixed64", "sfixed64", "double"}
                                    [] w = 1 -> {"bool"})) =>
               /\ pk_op.name = "serializedSize" =>
                      /\ pk_field.packed =>
                             nameMemoizedSerializedSize = w * Len(pk_list)
                      /\ pk_op.ret = w * Len(pk_list)
                             + (IF ~pk_field.packed THEN TagSize(pk_field) * Len(pk_list)
                                ELSE IF pk_list = <<>> THEN 0
                                ELSE TagSize(pk_field)
                                     + computeRawVarint32Size(w * Len(pk_list)))
               /\ PackedWritten =>
                      Len(BytesOf(ItemsOf(pk_out, "value"))) = w * Len(pk_list)

\* serializedSize has answered for a packed field of two doubles
C19_Witness ==
    /\ pk_field # NoField
    /\ pk_field.kind = "double" /\ pk_field.packed
    /\ Len(pk_list) = 2
    /\ pk_op.name = "serializedSize"
    /\ nameMemoizedSerializedSize = 16

\* field numbers on both sides of the one-byte and two-byte tags, and the
\* largest one whose tag TLC's integers hold
TagNumbers == {1, 15, 16, 2047, 2048, 268435455}

\* the tag that stands first among the bytes written
WrittenTag == readRawVarint32(pk_out[1].bytes, 0, Len(pk_out[1].bytes)).val

\* C20: the tag of a field, written before its values and used as the case
\* label of the decode loop, is (field number << 3) | wire type code, and it
\* round-trips: tag >> 3 is the number and tag & 7 is the wire type code,
\* for every field number and every wire type.
C20_TagRoundTrips ==
    /\ [](/\ \A n \in TagNumbers : \A wt \in WireTypes :
                 /\ GetTagFieldNumber(MakeTag(n, wt)) = n
                 /\ GetTagWireType(MakeTag(n, wt)) = WireTypeCode(wt)
          /\ (PackedWritten /\ pk_list # <<>>) =>
                 LET code == WireTypeCode(WireTypeForKind(pk_field.kind, pk_field.packed))
                 IN  /\ pk_out[1].what = "tag"
                     /\ WrittenTag = pk_field.number * 8 + code
                     /\ WrittenTag \div 8 = pk_field.number
                     /\ WrittenTag % 8 = code)
    /\ [][(pk_pc = "tag" /\ pk_pos = 0 /\ pk_list # <<>>) =>
              /\ pk_pc' \in {"tag", "run"}
              /\ pk_pos' > Len(pk_out[1].bytes)]_vars

\* the decode loop took the case of field 16, not packed, and read the two
\* values
C20_Witness ==
    /\ pk_pc = "done"
    /\ pk_field.number = 16 /\ ~pk_field.packed
    /\ pk_field.kind = "fixed32"
    /\ Len(pk_list) = 2
    /\ pk_dec.list = pk_list

----------------------------------------------------------------------------
(* C21, C22, C30: isEqual: and hash                                        *)

\* two instances agree: every singular field in presence and, where present,
\* in value; every repeated field in its sequence of elements; the unknown
\* fields
RECURSIVE Agree(_, _, _)
Agree(sch, a, b) ==
    /\ a.type = b.type
    /\ a.unknownFields = b.unknownFields
    /\ \A k \in DOMAIN a.f :
           LET f == sch[a.type].fields[k]
           IN  IF f.label = "repeated"
               THEN /\ Len(a.f[k].list) = Len(b.f[k].list)
                    /\ \A i \in DOMAIN a.f[k].list :
                           IF IsMessageField(f)
                           THEN Agree(sch, a.f[k].list[i], b.f[k].list[i])
                           ELSE a.f[k].list[i] = b.f[k].list[i]
               ELSE /\ a.f[k].has = b.f[k].has
                    /\ a.f[k].has =>
                           IF IsMessageField(f)
                           THEN Agree(sch, MessageOf(sch, a, k), MessageOf(sch, b, k))
                           ELSE a.f[k].val = b.f[k].val

IsEqualCalled == eq_op # NoCall

\* C21: isEqual: holds between two instances of a class exactly when every
\* field agrees in presence and, where present, in value, every repeated
\* field agrees in its sequence of elements, and the unknown fields agree.
C21_EqualExactlyWhenFieldsAgree ==
    IsEqualCalled =>
        (eq_op.ret <=> Agree(schema, heap[eq_op.self], heap[eq_op.other]))

\* C22: whenever isEqual: holds between two instances, hash returns the same
\* value for both; hash starts at 7 and folds hash * 31 + fieldHash over the
\* present fields and the elements of the repeated fields, then the unknown
\* fields, and an absent singular field adds nothing.
C22_EqualInstancesHashEqually ==
    /\ (IsEqualCalled /\ eq_op.ret /\ hash_ret[1] # 0 - 1 /\ hash_ret[2] # 0 - 1)
           => hash_ret[1] = hash_ret[2]
    /\ \A i \in DOMAIN hash_ret :
           (/\ hash_ret[i] # 0 - 1
            /\ \A k \in DOMAIN heap[i].f : ~heap[i].f[k].has /\ heap[i].f[k].list = <<>>)
               => hash_ret[i] = (7 * 31 + HashOfUnknownFields(heap[i].unknownFields))
                                    % HashWord

\* the two instances differ in nothing, both were hashed and compared equal
C22_Witness ==
    /\ IsEqualCalled /\ eq_op.ret
    /\ hash_ret[1] # 0 - 1 /\ hash_ret[1] = hash_ret[2]
    /\ heap[1].f[1].has
    /\ heap[1].f[2].list # <<>>

\* C30: an instance whose list was never created and an instance whose list
\* exists but has no elements are equal under isEqual: on that field, in both
\* argument orders, and hash identically.
C30_EmptyListsCompareEqual ==
    /\ (/\ IsEqualCalled
        /\ \A k \in DOMAIN heap[1].f :
               \/ heap[1].f[k] = heap[2].f[k]
               \/ heap[1].f[k].list = <<>> /\ heap[2].f[k].list = <<>>)
           => eq_op.ret
    /\ (/\ hash_ret # <<>> /\ hash_ret[1] # 0 - 1 /\ hash_ret[2] # 0 - 1
        /\ \A k \in DOMAIN heap[1].f :
               \/ heap[1].f[k] = heap[2].f[k]
               \/ heap[1].f[k].list = <<>> /\ heap[2].f[k].list = <<>>)
           => hash_ret[1] = hash_ret[2]

----------------------------------------------------------------------------
(* C23: the memo of serializedSize                                         *)

\* C23: the first serializedSize call computes the size and stores it, every
\* later call returns the stored value and recomputes no field contribution,
\* and no operation resets the memo to the not-computed sentinel (-1).
C23_SizeMemoizedPermanently ==
    [][/\ memoizedSerializedSize # 0 - 1 =>
             /\ memoizedSerializedSize' = memoizedSerializedSize
             /\ nameMemoizedSerializedSize' = nameMemoizedSerializedSize
             /\ pk_op'.name = "serializedSize" => pk_op'.ret = memoizedSerializedSize
       /\ (memoizedSerializedSize = 0 - 1 /\ pk_op'.name = "serializedSize"
              /\ pk_op' # pk_op) =>
             /\ memoizedSerializedSize' = GenerateSerializedSizeCodeSource(pk_field, pk_list)
             /\ memoizedSerializedSize' # 0 - 1
             /\ pk_op'.ret = memoizedSerializedSize']_vars

\* serializedSize was called, then the write (its prefix is the memo's), then
\* serializedSize again
C23_Witness ==
    /\ pk_op.name = "serializedSize"
    /\ pk_field.packed /\ Len(pk_list) = 2
    /\ pk_out # <<>>
    /\ pk_out[2].bytes = writeRawVarint32(dataSizeOf(pk_field, pk_list))
    /\ pk_op.ret = memoizedSerializedSize

----------------------------------------------------------------------------
(* C24: the packed option on string and bytes fields                       *)

Unpacked(f) == [f EXCEPT !.packed = FALSE]

----------------------------------------------------------------------------
(* C25: decoding a repeated message field                                  *)

\* the last value an embedded message carries for field n of B, <<>> if none
LastOf(body, n) ==
    LET at == {i \in DOMAIN body : body[i].num = n}
    IN  IF at = {} THEN <<>>
        ELSE <<body[CHOOSE i \in at : \A j \in at : j <= i].vals[1]>>

\* C25: decoding an occurrence of a repeated message field builds the
\* element with a new sub-builder and appends it: the list grows by exactly
\* one element per occurrence, in wire order, the elements decoded before
\* stay as they were, and the new element holds what its occurrence carried
\* and nothing else.
C25_FreshElementPerOccurrence ==
    [][(parsing /\ input # <<>> /\ builder_result # 0 /\ input' = Tail(input)
          /\ IsCaseLabel(schema, builder_type, Head(input))
          /\ IsMessageField(BuilderFields[Head(input).num])
          /\ BuilderFields[Head(input).num].label = "repeated") =>
         LET k == Head(input).num
             old == heap[builder_result].f[k].list
             new == heap'[builder_result].f[k].list
             body == Head(input).vals
         IN  /\ Len(new) = Len(old) + 1
             /\ SubSeq(new, 1, Len(old)) = old
             /\ \A n \in DOMAIN new[Len(new)].f :
                    /\ new[Len(new)].f[n].has = (LastOf(body, n) # <<>>)
                    /\ new[Len(new)].f[n].has =>
                           <<new[Len(new)].f[n].val>> = LastOf(body, n)]_vars

\* two streams were decoded, one on top of the other, and the three
\* occurrences are three elements in wire order
C25_Witness ==
    /\ ~parsing /\ builder_result # 0
    /\ Len(wire_in) = 2
    /\ Len(heap[builder_result].f[1].list) = 3
    /\ heap[builder_result].f[1].list[1].f[1].has
    /\ ~heap[builder_result].f[1].list[2].f[1].has
    /\ heap[builder_result].f[1].list[3].f[2].has

----------------------------------------------------------------------------
(* C26: the embedded checks that isInitialized leaves out                  *)

\* the values of type t inside the value v: v itself, those of its
\* message-typed fields and of the elements of its lists, at any depth
RECURSIVE Inside(_, _)
Inside(v, t) ==
    (IF v.type = t THEN {v} ELSE {})
        \cup UNION {IF IsMessageField(schema[v.type].fields[k]) /\ v.f[k].val # <<>>
                    THEN Inside(v.f[k].val[1], t) ELSE {} : k \in DOMAIN v.f}
        \cup UNION {IF IsMessageField(schema[v.type].fields[k])
                    THEN UNION {Inside(v.f[k].list[e], t) : e \in DOMAIN v.f[k].list}
                    ELSE {} : k \in DOMAIN v.f}

\* every value of type t the run has made
ValuesMade(t) == UNION {Inside(heap[i], t) : i \in DOMAIN heap}

\* the message-typed fields <<t, k>> for which isInitialized of t prints no
\* embedded check (lines 1006-1008)
OmittedChecks ==
    {tk \in Types \X (1..MaxFields) :
        /\ tk[2] \in DOMAIN schema[tk[1]].fields
        /\ IsMessageField(schema[tk[1]].fields[tk[2]])
        /\ ~HasRequiredFields(schema, schema[tk[1]].fields[tk[2]].msg)}

\* C26: when isInitialized of a type prints no embedded check for a
\* message-typed field, every value of the field's type says YES to
\* isInitialized, on type graphs with cycles as on any other.
C26_OmittedCheckIsAlwaysYes ==
    \A tk \in OmittedChecks :
        \A w \in ValuesMade(schema[tk[1]].fields[tk[2]].msg) : isInitialized(schema, w)

\* A holds a B and B holds an A, no check is printed for either field, and
\* an instance of B holds an instance of A that holds a B
C26_Witness ==
    /\ <<"A", 1>> \in OmittedChecks /\ <<"B", 1>> \in OmittedChecks
    /\ schema["B"].fields[1].msg = "A"
    /\ \E i \in DOMAIN heap :
          /\ heap[i].type = "B" /\ heap[i].f[1].has /\ heap[i].f[1].val # <<>>
          /\ heap[i].f[1].val[1].f[1].has

----------------------------------------------------------------------------
(* C27, C28: presence flags, defaults and partiallyMergeFrom:fieldIDs:      *)

\* C27: in every instance a builder works on or has handed out, a singular
\* field whose presence flag is NO holds its default value (the declared
\* default, or the defaultInstance of a message-typed field), whatever
\* members were called: set, clear, mergeFrom, partiallyMergeFrom, decode.
C27_AbsentFieldHoldsDefault ==
    \A i \in DOMAIN heap :
        \A k \in DOMAIN heap[i].f :
            LET f == schema[heap[i].type].fields[k]
            IN  (f.label # "repeated" /\ ~heap[i].f[k].has) =>
                    heap[i].f[k].val = (IF IsMessageField(f) THEN <<>> ELSE 0)

\* a stream was decoded into the only builder's instance, which set the
\* singular field, and the field is absent again
C27_Witness ==
    /\ Len(heap) = 1 /\ builder_result = 1 /\ ~parsing
    /\ Len(wire_in) = 1 /\ wire_in[1].num = 1
    /\ schema[heap[1].type].fields[1].label # "repeated"
    /\ heap[1].unknownFields = <<>>
    /\ ~heap[1].f[1].has

\* C28: partiallyMergeFrom:other fieldIDs:ids leaves every field whose
\* number is not in ids as it was; a field in ids takes other's value with
\* its flag set (a repeated one other's list) when other has it, and is
\* cleared when other has not; nothing else of the instance changes.
C28_PartialMergeTouchesOnlyListedFields ==
    [][\A ids \in SUBSET DOMAIN BuilderFields :
         \A o \in {AllocInit(schema, builder_type)} \cup Instances(builder_type) :
           (/\ builder_result # 0 /\ last_op'.name = "call"
            /\ heap' = [heap EXCEPT ![builder_result] =
                           partiallyMergeFrom(schema, @, o, ids, 1)]) =>
             LET v == heap[builder_result]
                 w == heap'[builder_result]
             IN  /\ \A k \in DOMAIN v.f : k \notin ids => w.f[k] = v.f[k]
                 /\ \A k \in ids :
                       IF BuilderFields[k].label = "repeated"
                       THEN IF o.f[k].nil THEN w.f[k].nil /\ w.f[k].list = <<>>
                            ELSE ~w.f[k].nil /\ w.f[k].list = o.f[k].list
                       ELSE IF o.f[k].has
                            THEN w.f[k].has /\ w.f[k].val = o.f[k].val
                            ELSE /\ ~w.f[k].has
                                 /\ w.f[k].val = (IF IsMessageField(BuilderFields[k])
                                                  THEN <<>> ELSE 0)
                 /\ w.unknownFields = v.unknownFields /\ w.ext_ok = v.ext_ok
                 /\ \A i \in DOMAIN heap : i # builder_result => heap'[i] = heap[i]]_vars

\* a partial merge has brought field 1 to the other instance's value, and
\* field 2 holds a list the other instance does not
C28_Witness ==
    /\ builder_result = 1 /\ last_op.name = "call"
    /\ ~BuilderFields[1].label = "repeated"
    /\ heap[2].f[1].has /\ heap[2].f[1].val # <<>>
    /\ heap[1].f[1] = heap[2].f[1]
    /\ ~heap[1].f[2].nil /\ heap[2].f[2].nil

----------------------------------------------------------------------------
(* C29: the case labels of the decode loop                                 *)

\* one type for each wire type a field can have
LabelKinds == {"int32", "double", "float", "string", "group"}

\* a field of the declared message, with a type of the caller's choice
TypedField(i, kind, packed) ==
    [number |-> desc_fields[i], kind |-> kind, packed |-> packed]

\* C29: the fields of a message have unique, positive numbers, and
\* whatever their types the labels of their cases in the decode loop are
\* pairwise distinct and none is 0, the label of the end of input.
C29_CaseLabelsDistinct ==
    \A i \in DOMAIN desc_fields :
        \A ki \in LabelKinds, pi \in BOOLEAN :
            /\ CaseLabel(TypedField(i, ki, pi)) # 0
            /\ \A j \in DOMAIN desc_fields \ {i} :
                   \A kj \in LabelKinds, pj \in BOOLEAN :
                       CaseLabel(TypedField(i, ki, pi)) # CaseLabel(TypedField(j, kj, pj))

\* the generator has run on a message of three fields declared out of
\* order, two of them with neighbouring numbers
C29_Witness ==
    /\ gen_pc = "done"
    /\ Len(desc_fields) = 3
    /\ desc_fields[1] = desc_fields[2] + 1
    /\ desc_fields[3] < desc_fields[2]

====
